---- MODULE Spec2Model ----
(***************************************************************************)
(* MKVFixer: the compliance evaluation of one file's track list against    *)
(* the policy (remuxFile, determineTargetVideoLanguage), the mkvmerge      *)
(* command remuxFile builds, and the batch run that applies it             *)
(* (runProcessing, Cache).                                                 *)
(*                                                                         *)
(* Strings cannot be concatenated by TLC, so a command-line argument pair  *)
(* such as "--language", "3:eng" is one record [opt, ids, id, val] and a   *)
(* path is a record [stem, remux, ext]: see Arg and outputFileOf.          *)
(***************************************************************************)
EXTENDS Integers, Sequences, FiniteSets, TLC

VARIABLES
    \* ---- one evaluation of one inspected file (SpecEval) ----
    e_info,        \* MkvInfo: [Tracks |-> sequence of Track]
    e_cfg,         \* Config
    e_actionType,  \* ActionType
    e_pc,          \* position in remuxFile, then in the second run over its output
    e_hasVideo,    \* remuxFile's hasVideo after the loop of lines 53-85
    e_needsFix,    \* remuxFile's needsFix after the loop of lines 53-85
    e_args,        \* the mkvmerge command line built by lines 102-170
    e_out,         \* MkvInfo of the output file mkvmerge wrote
    e_hasVideo2,   \* hasVideo of the next run's evaluation of the output file
    e_needsFix2,   \* needsFix of the next run's evaluation of the output file
    \* ---- one run of runProcessing over a directory (Spec) ----
    fs,            \* the directory: path -> file (NoFile when there is none)
    now,           \* the clock in ticks, as of the last write to a file
    cacheFile,     \* the contents of .mkvfixer.cache on disk
    Items,         \* fileCache.Items: cache key -> modification time
    runActionType, \* actionType of runProcessing: all, audio or subtitle
    checkOnly,     \* the --check-only flag
    numWorkers,    \* the effective number of workers
    jobs,          \* the jobs channel's buffer
    closed,        \* whether the jobs channel is closed
    ctxDone,       \* whether ctx is cancelled (interrupt received)
    cpc,           \* where runProcessing itself (the coordinator) stands
    walk,          \* the directory entries WalkDir has still to visit
    wpc,           \* per worker: where it stands
    wpath,         \* per worker: path, the job it holds
    winfo,         \* per worker: remuxFile's info
    wargs,         \* per worker: remuxFile's args
    wfinal,        \* per worker: finalPath returned by remuxFile
    werr,          \* per worker: err returned by remuxFile ("" for nil)
    wstat,         \* per worker: the time os.Stat gave inside Check or Update
    wread,         \* per worker: the input as the running remux tool found it
    effects,       \* history: what each job did, as [job, op, target]
    walkErr,       \* whether filepath.WalkDir returned an error
    runErr,        \* the error runProcessing returned ("" for nil or none yet)
    \* ---- calls on one Cache, outside a run (SpecCache) ----
    c_op,          \* the last call or event
    c_key,         \* the cache key of the last Check or Update
    c_hit,         \* what the last Check returned
    c_seen,        \* history: key -> the file's time at the last Update that stored
    c_cache,       \* fileCache: "map", "nilMap" (Items is nil) or "nil" (no Cache)
    c_prev,        \* history: the cache file as the last Save found it
    \* ---- the lock of the Cache under the goroutines of a run (SpecLock) ----
    mu_w,          \* c.mu: the goroutine holding the write lock, if any
    mu_r,          \* c.mu: the goroutines holding a read lock
    mu_pending,    \* c.mu: the goroutines blocked in Lock()
    l_pc,          \* per goroutine (0 is runProcessing itself): where it stands
    l_job,         \* per worker: the jobs it has finished
    l_items        \* c.Items as the Updates have written it

evars == << e_info, e_cfg, e_actionType, e_pc, e_hasVideo, e_needsFix,
            e_args, e_out, e_hasVideo2, e_needsFix2 >>

rvars == << fs, now, cacheFile, Items, runActionType, checkOnly, numWorkers, jobs,
            closed, ctxDone, cpc, walk, wpc, wpath, winfo, wargs, wfinal, werr,
            wstat, wread, effects, walkErr, runErr >>

cvars == << c_op, c_key, c_hit, c_seen, c_cache, c_prev >>

lvars == << mu_w, mu_r, mu_pending, l_pc, l_job, l_items >>

vars == << evars, rvars, cvars, lvars >>

----------------------------------------------------------------------------
(* Bounds and input domains *)

MaxTracks == 3
MaxWorkers == 2
MaxClock == 2

ActionAll == "all"
ActionAudio == "audio"
ActionSubtitle == "subtitle"
ActionTypes == {ActionAll, ActionAudio, ActionSubtitle}

\* The language strings an inspected track may carry.  "" is Go's zero value
\* of Track.Properties.Language, what json.Unmarshal leaves when the
\* inspection output has no "language" property for a track.
VideoLangs == {"eng", "jpn", "und", "unk"}
AudioLangs == {"eng", "jpn", ""}
SubtitleLangs == {"eng", "fre"}

\* mkvmerge numbers the tracks of a file from 0 in declaration order.
TrackId(i) == i - 1

Track(i, type, lang, def) ==
    [ID |-> TrackId(i), Type |-> type, Language |-> lang, DefaultTrack |-> def]

\* The tracks that can stand at position i of an inspected file.  "buttons"
\* is a track type that is none of video, audio, subtitles.
TracksAt(i) ==
    {Track(i, "video", l, FALSE) : l \in VideoLangs}
    \cup {Track(i, "audio", l, d) : l \in AudioLangs, d \in BOOLEAN}
    \cup {Track(i, "subtitles", l, FALSE) : l \in SubtitleLangs}
    \cup {Track(i, "buttons", "und", FALSE)}

RECURSIVE TrackLists(_)
TrackLists(n) ==
    IF n = 0 THEN {<< >>}
    ELSE LET shorter == TrackLists(n - 1)
         IN  shorter \cup {Append(s, t) : s \in {x \in shorter : Len(x) = n - 1},
                                          t \in TracksAt(n)}

Infos == {[Tracks |-> s] : s \in TrackLists(MaxTracks)}

Configs ==
    {[VideoLanguage |-> v, AudioLanguages |-> a, DefaultAudio |-> d,
      SubtitleLanguages |-> << "eng" >>] :
        v \in {"eng", "und"}, a \in {<< "eng", "jpn" >>, << "eng" >>}, d \in {"eng"}}

----------------------------------------------------------------------------
(* remuxFile and determineTargetVideoLanguage: the pure part *)

\* remuxFile's helper isInList
isInList(lang, list) == \E i \in 1..Len(list) : list[i] = lang

\* The loop of determineTargetVideoLanguage over info.Tracks, from track i on,
\* with the values hasPreferredAudio and firstAudioLang have so far.
RECURSIVE scanAudio(_, _, _, _, _)
scanAudio(info, i, preferredLang, hasPreferredAudio, firstAudioLang) ==
    IF i > Len(info.Tracks)
    THEN [hasPreferredAudio |-> hasPreferredAudio, firstAudioLang |-> firstAudioLang]
    ELSE LET t == info.Tracks[i]
         IN  IF t.Type = "audio"
             THEN scanAudio(info, i + 1, preferredLang,
                            hasPreferredAudio \/ t.Language = preferredLang,
                            IF firstAudioLang = "" THEN t.Language ELSE firstAudioLang)
             ELSE scanAudio(info, i + 1, preferredLang, hasPreferredAudio, firstAudioLang)

\* A mutant of determineTargetVideoLanguage: the first audio track's language
\* wins over an audio track that has the preferred language.
determineTargetVideoLanguage_firstWins(videoTrack, info, preferredLang) ==
    LET current == videoTrack.Language
        s == scanAudio(info, 1, preferredLang, FALSE, "")
    IN  IF current = preferredLang THEN [targetLang |-> preferredLang, needsFix |-> FALSE]
        ELSE IF current # "und" /\ current # "unk"
        THEN [targetLang |-> preferredLang, needsFix |-> TRUE]
        ELSE IF s.firstAudioLang # "" THEN [targetLang |-> s.firstAudioLang, needsFix |-> TRUE]
        ELSE IF s.hasPreferredAudio THEN [targetLang |-> preferredLang, needsFix |-> TRUE]
        ELSE [targetLang |-> "und", needsFix |-> FALSE]

\* determineTargetVideoLanguage: (targetLanguage, needsFix)
determineTargetVideoLanguage(videoTrack, info, preferredLang) ==
    LET current == videoTrack.Language
        s == scanAudio(info, 1, preferredLang, FALSE, "")
    IN  IF current = preferredLang THEN [targetLang |-> preferredLang, needsFix |-> FALSE]
        ELSE IF current # "und" /\ current # "unk"
        THEN [targetLang |-> preferredLang, needsFix |-> TRUE]
        ELSE IF s.hasPreferredAudio THEN [targetLang |-> preferredLang, needsFix |-> TRUE]
        ELSE IF s.firstAudioLang # "" THEN [targetLang |-> s.firstAudioLang, needsFix |-> TRUE]
        ELSE [targetLang |-> "und", needsFix |-> FALSE]

\* A mutant of checkTrack: the default flag comparison is inverted.
checkTrack_defaultInverted(track, info, cfg, actionType, st) ==
    LET inAudioScope == actionType = ActionAll \/ actionType = ActionAudio
        inSubtitleScope == actionType = ActionAll \/ actionType = ActionSubtitle
        videoFix == /\ track.Type = "video"
                    /\ inAudioScope
                    /\ determineTargetVideoLanguage(track, info, cfg.VideoLanguage).needsFix
        audioFix == /\ track.Type = "audio"
                    /\ inAudioScope
                    /\ IF ~isInList(track.Language, cfg.AudioLanguages)
                       THEN TRUE
                       ELSE track.DefaultTrack = (track.Language = cfg.DefaultAudio)
        subtitleFix == /\ track.Type = "subtitles"
                       /\ inSubtitleScope
                       /\ ~isInList(track.Language, cfg.SubtitleLanguages)
    IN  [hasVideo |-> st.hasVideo \/ track.Type = "video",
         needsFix |-> st.needsFix \/ videoFix \/ audioFix \/ subtitleFix]

\* A mutant of checkTrack: the default flag of an allowed audio track is not
\* looked at.
checkTrack_noDefaultCheck(track, info, cfg, actionType, st) ==
    LET inAudioScope == actionType = ActionAll \/ actionType = ActionAudio
        inSubtitleScope == actionType = ActionAll \/ actionType = ActionSubtitle
        videoFix == /\ track.Type = "video"
                    /\ inAudioScope
                    /\ determineTargetVideoLanguage(track, info, cfg.VideoLanguage).needsFix
        audioFix == /\ track.Type = "audio"
                    /\ inAudioScope
                    /\ ~isInList(track.Language, cfg.AudioLanguages)
        subtitleFix == /\ track.Type = "subtitles"
                       /\ inSubtitleScope
                       /\ ~isInList(track.Language, cfg.SubtitleLanguages)
    IN  [hasVideo |-> st.hasVideo \/ track.Type = "video",
         needsFix |-> st.needsFix \/ videoFix \/ audioFix \/ subtitleFix]

\* One pass of the loop of remuxFile lines 53-85 over track, from the values
\* st.hasVideo and st.needsFix.
checkTrack(track, info, cfg, actionType, st) ==
    LET inAudioScope == actionType = ActionAll \/ actionType = ActionAudio
        inSubtitleScope == actionType = ActionAll \/ actionType = ActionSubtitle
        videoFix == /\ track.Type = "video"
                    /\ inAudioScope
                    /\ determineTargetVideoLanguage(track, info, cfg.VideoLanguage).needsFix
        audioFix == /\ track.Type = "audio"
                    /\ inAudioScope
                    /\ IF ~isInList(track.Language, cfg.AudioLanguages)
                       THEN TRUE
                       ELSE track.DefaultTrack # (track.Language = cfg.DefaultAudio)
        subtitleFix == /\ track.Type = "subtitles"
                       /\ inSubtitleScope
                       /\ ~isInList(track.Language, cfg.SubtitleLanguages)
    IN  [hasVideo |-> st.hasVideo \/ track.Type = "video",
         needsFix |-> st.needsFix \/ videoFix \/ audioFix \/ subtitleFix]

\* The loop of remuxFile lines 53-85 from track i on.
RECURSIVE checkTracks(_, _, _, _, _)
checkTracks(info, cfg, actionType, i, st) ==
    IF i > Len(info.Tracks) THEN st
    ELSE checkTracks(info, cfg, actionType, i + 1,
                     checkTrack(info.Tracks[i], info, cfg, actionType, st))

\* remuxFile lines 40-85: hasVideo and needsFix of an inspected file.
checkRequirements(info, cfg, actionType) ==
    checkTracks(info, cfg, actionType, 1, [hasVideo |-> FALSE, needsFix |-> FALSE])

\* A path: stem, then remux copies of "-remux", then ext.  NoPath is the empty
\* string remuxFile returns for "no final path".
Path(stem, remux) == [stem |-> stem, remux |-> remux, ext |-> ".mkv"]
NoPath == [stem |-> "", remux |-> 0, ext |-> ""]

\* remuxFile lines 98-100: "-remux" inserted before the extension.
outputFileOf(inputFile) == [inputFile EXCEPT !.remux = @ + 1]

\* One option of the mkvmerge command line with its value: ids is the list
\* joined by "," after --audio-tracks / --subtitle-tracks, id and val are the
\* two sides of "<id>:<val>" after --language / --default-track, path is the
\* file after -o or the trailing input file (opt "").
Arg(opt, ids, id, val, path) ==
    [opt |-> opt, ids |-> ids, id |-> id, val |-> val, path |-> path]

\* remuxFile lines 108-125: the ids of the tracks of the given type whose
\* language is in list, in declaration order, from track i on.
RECURSIVE keepIds(_, _, _, _)
keepIds(info, type, list, i) ==
    IF i > Len(info.Tracks) THEN << >>
    ELSE LET track == info.Tracks[i]
             rest == keepIds(info, type, list, i + 1)
         IN  IF track.Type = type /\ isInList(track.Language, list)
             THEN << track.ID >> \o rest
             ELSE rest

\* A mutant of keepAudioIds: every audio track is kept.
keepAudioIds_all(info, cfg, actionType) ==
    IF actionType = ActionAll \/ actionType = ActionAudio
    THEN keepIds(info, "audio", << "eng", "jpn", "fre", "und", "unk", "" >>, 1)
    ELSE << >>

\* remuxFile lines 105-116: keepAudioIds
keepAudioIds(info, cfg, actionType) ==
    IF actionType = ActionAll \/ actionType = ActionAudio
    THEN keepIds(info, "audio", cfg.AudioLanguages, 1)
    ELSE << >>

\* remuxFile lines 106-124: keepSubtitleIds
keepSubtitleIds(info, cfg, actionType) ==
    IF actionType = ActionAll \/ actionType = ActionSubtitle
    THEN keepIds(info, "subtitles", cfg.SubtitleLanguages, 1)
    ELSE << >>

\* A mutant of audioArgs: an empty keep-list is passed as an empty list.
audioArgs_emptyList(info, cfg, actionType) ==
    IF actionType = ActionAll \/ actionType = ActionAudio
    THEN << Arg("--audio-tracks", keepAudioIds(info, cfg, actionType), 0, "", NoPath) >>
    ELSE << >>

\* remuxFile lines 127-135
audioArgs(info, cfg, actionType) ==
    IF actionType = ActionAll \/ actionType = ActionAudio
    THEN IF Len(keepAudioIds(info, cfg, actionType)) > 0
         THEN << Arg("--audio-tracks", keepAudioIds(info, cfg, actionType), 0, "", NoPath) >>
         ELSE << Arg("--no-audio", << >>, 0, "", NoPath) >>
    ELSE << >>

\* remuxFile lines 137-144
subtitleArgs(info, cfg, actionType) ==
    IF actionType = ActionAll \/ actionType = ActionSubtitle
    THEN IF Len(keepSubtitleIds(info, cfg, actionType)) > 0
         THEN << Arg("--subtitle-tracks", keepSubtitleIds(info, cfg, actionType), 0, "", NoPath) >>
         ELSE << Arg("--no-subtitles", << >>, 0, "", NoPath) >>
    ELSE << >>

\* A mutant of trackArgs: every audio track gets its default flag set, kept
\* or not.
trackArgs_defaultForDropped(track, info, cfg, actionType) ==
    LET inAudioScope == actionType = ActionAll \/ actionType = ActionAudio
    IN  IF track.Type = "video" /\ inAudioScope
        THEN << Arg("--language", << >>, track.ID,
                    determineTargetVideoLanguage(track, info, cfg.VideoLanguage).targetLang,
                    NoPath) >>
        ELSE IF track.Type = "audio" /\ inAudioScope
        THEN IF track.Language = cfg.DefaultAudio
             THEN << Arg("--default-track", << >>, track.ID, "yes", NoPath) >>
             ELSE << Arg("--default-track", << >>, track.ID, "no", NoPath) >>
        ELSE << >>

\* A mutant of trackArgs: the options are added whatever the scope.
trackArgs_anyScope(track, info, cfg, actionType) ==
    IF track.Type = "video"
    THEN << Arg("--language", << >>, track.ID,
                determineTargetVideoLanguage(track, info, cfg.VideoLanguage).targetLang,
                NoPath) >>
    ELSE IF track.Type = "audio" /\ isInList(track.Language, cfg.AudioLanguages)
    THEN IF track.Language = cfg.DefaultAudio
         THEN << Arg("--default-track", << >>, track.ID, "yes", NoPath) >>
         ELSE << Arg("--default-track", << >>, track.ID, "no", NoPath) >>
    ELSE << >>

\* One pass of the loop of remuxFile lines 146-168: the options track adds.
trackArgs(track, info, cfg, actionType) ==
    LET inAudioScope == actionType = ActionAll \/ actionType = ActionAudio
    IN  IF track.Type = "video" /\ inAudioScope
        THEN << Arg("--language", << >>, track.ID,
                    determineTargetVideoLanguage(track, info, cfg.VideoLanguage).targetLang,
                    NoPath) >>
        ELSE IF /\ track.Type = "audio"
                /\ inAudioScope
                /\ isInList(track.Language, cfg.AudioLanguages)
        THEN IF track.Language = cfg.DefaultAudio
             THEN << Arg("--default-track", << >>, track.ID, "yes", NoPath) >>
             ELSE << Arg("--default-track", << >>, track.ID, "no", NoPath) >>
        ELSE << >>

\* The loop of remuxFile lines 146-168 from track i on.
RECURSIVE tracksArgs(_, _, _, _)
tracksArgs(info, cfg, actionType, i) ==
    IF i > Len(info.Tracks) THEN << >>
    ELSE trackArgs(info.Tracks[i], info, cfg, actionType)
         \o tracksArgs(info, cfg, actionType, i + 1)

\* remuxFile lines 97-170: the arguments of the remux command.
buildArgs(inputFile, info, cfg, actionType) ==
    << Arg("-o", << >>, 0, "", outputFileOf(inputFile)) >>
    \o audioArgs(info, cfg, actionType)
    \o subtitleArgs(info, cfg, actionType)
    \o tracksArgs(info, cfg, actionType, 1)
    \o << Arg("", << >>, 0, "", inputFile) >>

----------------------------------------------------------------------------
(* mkvmerge, the external remux tool, by its documented interface: it keeps  *)
(* the tracks the selection options name (every track of a kind that has no  *)
(* selection option), applies --language and --default-track to the track    *)
(* with that id, and numbers the tracks of the output from 0.                *)

hasOpt(args, opt) == \E k \in 1..Len(args) : args[k].opt = opt

optOf(args, opt) == args[CHOOSE k \in 1..Len(args) : args[k].opt = opt]

hasOptFor(args, opt, id) == \E k \in 1..Len(args) : args[k].opt = opt /\ args[k].id = id

\* The value of the last option opt given for track id.
valFor(args, opt, id) ==
    LET ks == {k \in 1..Len(args) : args[k].opt = opt /\ args[k].id = id}
    IN  args[CHOOSE k \in ks : \A j \in ks : j <= k].val

mkvmergeKeeps(track, args) ==
    IF track.Type = "audio"
    THEN IF hasOpt(args, "--no-audio") THEN FALSE
         ELSE IF hasOpt(args, "--audio-tracks")
         THEN isInList(track.ID, optOf(args, "--audio-tracks").ids)
         ELSE TRUE
    ELSE IF track.Type = "subtitles"
    THEN IF hasOpt(args, "--no-subtitles") THEN FALSE
         ELSE IF hasOpt(args, "--subtitle-tracks")
         THEN isInList(track.ID, optOf(args, "--subtitle-tracks").ids)
         ELSE TRUE
    ELSE TRUE

mkvmergeTrack(track, args) ==
    [ID |-> track.ID,
     Type |-> track.Type,
     Language |-> IF hasOptFor(args, "--language", track.ID)
                  THEN valFor(args, "--language", track.ID)
                  ELSE track.Language,
     DefaultTrack |-> IF hasOptFor(args, "--default-track", track.ID)
                      THEN valFor(args, "--default-track", track.ID) = "yes"
                      ELSE track.DefaultTrack]

RECURSIVE mkvmergeTracks(_, _, _, _)
mkvmergeTracks(tracks, args, i, n) ==
    IF i > Len(tracks) THEN << >>
    ELSE IF mkvmergeKeeps(tracks[i], args)
    THEN << [mkvmergeTrack(tracks[i], args) EXCEPT !.ID = TrackId(n)] >>
         \o mkvmergeTracks(tracks, args, i + 1, n + 1)
    ELSE mkvmergeTracks(tracks, args, i + 1, n)

\* The MkvInfo of the file "mkvmerge args" writes from a file with info.
mkvmerge(info, args) == [Tracks |-> mkvmergeTracks(info.Tracks, args, 1, 1)]

----------------------------------------------------------------------------
(* The run: the directory, the cache, the jobs channel, the workers *)

Workers == 1..MaxWorkers

\* jobs := make(chan string, numWorkers*2)
QueueFactor == 2

\* The policy of the run (README's example config.json).
RunConfig ==
    [VideoLanguage |-> "eng", AudioLanguages |-> << "eng", "jpn" >>,
     DefaultAudio |-> "eng", SubtitleLanguages |-> << "eng" >>]

NoInfo == [Tracks |-> << >>]

\* A file: its tracks, its modification time, and whether it is the partial
\* output of a remux still being written.
NoFile == [exists |-> FALSE, info |-> NoInfo, mtime |-> 0, partial |-> FALSE]
File(info, mtime) == [exists |-> TRUE, info |-> info, mtime |-> mtime, partial |-> FALSE]
PartialFile(mtime) == [exists |-> TRUE, info |-> NoInfo, mtime |-> mtime, partial |-> TRUE]

\* Track lists of the files of the run: two that meet RunConfig in every
\* scope, one that needs a subtitle dropped and a default flag set, one that
\* meets RunConfig for its audio but not for its subtitles, one with no video
\* track, and one whose video language is inferred from a jpn audio track
\* (it meets RunConfig for its subtitles but not for its audio).
CompliantInfo ==
    [Tracks |-> << Track(1, "video", "eng", FALSE), Track(2, "audio", "eng", TRUE) >>]
NeedsFixInfo ==
    [Tracks |-> << Track(1, "video", "eng", FALSE), Track(2, "audio", "eng", FALSE),
                   Track(3, "subtitles", "fre", FALSE) >>]
RichCompliantInfo ==
    [Tracks |-> << Track(1, "video", "eng", FALSE), Track(2, "audio", "jpn", FALSE),
                   Track(3, "audio", "eng", TRUE), Track(4, "subtitles", "eng", FALSE),
                   Track(5, "buttons", "und", FALSE) >>]
AudioOkInfo ==
    [Tracks |-> << Track(1, "video", "eng", FALSE), Track(2, "audio", "eng", TRUE),
                   Track(3, "subtitles", "fre", FALSE) >>]
NoVideoInfo == [Tracks |-> << Track(1, "audio", "eng", TRUE) >>]
UndVideoInfo ==
    [Tracks |-> << Track(1, "video", "und", FALSE), Track(2, "audio", "jpn", FALSE) >>]

\* The paths of the directory: a.mkv, a-remux.mkv, a-remux-remux.mkv, b.mkv,
\* b-remux.mkv.
FileA == Path("a", 0)
FileARemux == Path("a", 1)
FileB == Path("b", 0)
FileC == Path("c", 0)
Paths == {FileA, FileARemux, outputFileOf(FileARemux), FileB, outputFileOf(FileB),
          FileC, outputFileOf(FileC)}

\* filepath.WalkDir visits the entries of a directory in lexical order:
\* "a-remux.mkv" < "a.mkv" < "b.mkv" < "c.mkv".
WalkOrder == << FileARemux, FileA, FileB, FileC >>

\* A mutant of cacheKey: the key is the path, whatever the scope.
cacheKey_noScope(scope, path) == [scope |-> ActionAll, path |-> path]

\* The cache key fmt.Sprintf("%s:%s", actionType, absPath)
cacheKey(scope, path) == [scope |-> scope, path |-> path]

\* A file's modification time is kept in ticks, TicksPerSecond to the second;
\* stat.ModTime().Unix() is the time in whole seconds.
TicksPerSecond == 2
Unix(mtime) == mtime \div TicksPerSecond

\* The stat variable of Check and of Update while it holds no time.
NoStat == -1

\* Check's lookup (main.go lines 181-193): an entry under the key that holds
\* the time the stat gave.
IsCached(items, key, time) == key \in DOMAIN items /\ items[key] = time

\* Update's store (main.go line 209)
Store(items, key, time) ==
    [k \in DOMAIN items \cup {key} |-> IF k = key THEN time ELSE items[k]]

\* A mutant of Check: the entry is a hit whatever the file's time is.
Check_anyTime(items, files, key, filePath) ==
    /\ files[filePath].exists
    /\ key \in DOMAIN items

\* Cache.Check (main.go 170-194): stat, then the lookup under the key.
Check(items, files, key, filePath) ==
    /\ files[filePath].exists
    /\ IsCached(items, key, Unix(files[filePath].mtime))

\* Cache.Update (main.go 197-212): stat, then the store under the key; the
\* map is left as it is when the stat fails.
Update(items, files, key, filePath) ==
    IF files[filePath].exists
    THEN Store(items, key, Unix(files[filePath].mtime))
    ELSE items

EmptyItems == [k \in {} |-> 0]

\* What .mkvfixer.cache holds on disk: no file, a JSON object (items are its
\* members with integer values, bad the keys of its members with values of
\* another type), a text that is not JSON (an empty or cut-off file is one),
\* the JSON null, or a file that cannot be read.
CacheFileOf(kind, items, bad) == [kind |-> kind, items |-> items, bad |-> bad]
NoCacheFile == CacheFileOf("missing", EmptyItems, {})
JsonObject(items) == CacheFileOf("object", items, {})
InvalidJson == CacheFileOf("invalid", EmptyItems, {})
JsonNull == CacheFileOf("null", EmptyItems, {})
UnreadableFile == CacheFileOf("unreadable", EmptyItems, {})

\* NewCache (main.go 148-167): Items starts as an empty map; json.Unmarshal
\* fills it from an object (a member of the wrong type is stored as 0 and the
\* error is dropped), leaves it alone on a syntax error, and sets it to the
\* nil map on null; a read error other than "not exist" returns (nil, err).
NewCache(file) ==
    [err |-> file.kind = "unreadable",
     isNil |-> file.kind = "null",
     items |-> IF file.kind = "object"
               THEN [k \in DOMAIN file.items \cup file.bad |->
                        IF k \in file.bad THEN 0 ELSE file.items[k]]
               ELSE EmptyItems]

\* json.MarshalIndent(c.Items) of Save (main.go 216-218): a nil map is
\* written as null.
MarshalItems(isNil, items) == IF isNil THEN JsonNull ELSE JsonObject(items)

Effect(job, op, target) == [job |-> job, op |-> op, target |-> target]

\* How remuxFile judged a file (lines 87-95), for the history.
Verdict(st) ==
    IF ~st.hasVideo THEN "noVideo"
    ELSE IF st.needsFix THEN "needsFixing"
    ELSE "compliant"

\* The values the variables of the run have while a single evaluation
\* (SpecEval) is looked at, and those of an evaluation while a run is.
RunIdle ==
    /\ fs = [p \in Paths |-> NoFile]
    /\ now = 0
    /\ cacheFile = NoCacheFile
    /\ Items = EmptyItems
    /\ runActionType = ActionAll
    /\ checkOnly = FALSE
    /\ numWorkers = 1
    /\ jobs = << >>
    /\ closed = FALSE
    /\ ctxDone = FALSE
    /\ cpc = "done"
    /\ walk = << >>
    /\ wpc = [w \in Workers |-> "notStarted"]
    /\ wpath = [w \in Workers |-> NoPath]
    /\ winfo = [w \in Workers |-> NoInfo]
    /\ wargs = [w \in Workers |-> << >>]
    /\ wfinal = [w \in Workers |-> NoPath]
    /\ werr = [w \in Workers |-> ""]
    /\ wstat = [w \in Workers |-> NoStat]
    /\ wread = [w \in Workers |-> NoInfo]
    /\ effects = {}
    /\ walkErr = FALSE
    /\ runErr = ""

EvalIdle ==
    /\ e_info = NoInfo
    /\ e_cfg = RunConfig
    /\ e_actionType = ActionAll
    /\ e_pc = "idle"
    /\ e_hasVideo = FALSE
    /\ e_needsFix = FALSE
    /\ e_args = << >>
    /\ e_out = NoInfo
    /\ e_hasVideo2 = FALSE
    /\ e_needsFix2 = FALSE

CacheIdle ==
    /\ c_op = "idle"
    /\ c_key = cacheKey(ActionAll, FileA)
    /\ c_hit = FALSE
    /\ c_seen = EmptyItems
    /\ c_cache = "map"
    /\ c_prev = NoCacheFile

\* The lock and the goroutines while no run is looked at goroutine by
\* goroutine.
LockIdle ==
    /\ mu_w = {}
    /\ mu_r = {}
    /\ mu_pending = {}
    /\ l_pc = [g \in 0..MaxWorkers |-> "idle"]
    /\ l_job = [w \in Workers |-> 0]
    /\ l_items = EmptyItems

\* The cache files a run can start from: none, or one left by an earlier run
\* in some scope, with an entry for a.mkv recorded at time 0.
InitialCaches ==
    {NoCacheFile} \cup
    {JsonObject([k \in {cacheKey(scope, FileA)} |-> Unix(0)]) : scope \in ActionTypes}

\* runProcessing at line 80: the flags are given, nothing is loaded, no worker
\* runs yet.  The cache file is missing or a well-formed one.  The directory
\* holds a.mkv alone, with any of four track lists and any of the caches, or
\* a-remux.mkv, a.mkv and b.mkv, with no cache or one of this run's scope, or
\* these three and c.mkv, more files than one worker and its queue hold, for
\* a run with one worker and no cache.
Init ==
    /\ EvalIdle
    /\ LockIdle
    /\ CacheIdle
    /\ runActionType \in ActionTypes
    /\ numWorkers \in 1..MaxWorkers
    /\ \E a \in {CompliantInfo, AudioOkInfo, NoVideoInfo, UndVideoInfo},
          others \in BOOLEAN, fourth \in BOOLEAN :
         /\ others => a = AudioOkInfo
         /\ fourth => (others /\ numWorkers = 1)
         /\ fs = [p \in Paths |->
                    IF p = FileA THEN File(a, 0)
                    ELSE IF p = FileARemux /\ others THEN File(NeedsFixInfo, 0)
                    ELSE IF p = FileB /\ others THEN File(RichCompliantInfo, 0)
                    ELSE IF p = FileC /\ fourth THEN File(CompliantInfo, 0)
                    ELSE NoFile]
         /\ cacheFile \in InitialCaches
         /\ others => cacheFile \in
                {NoCacheFile,
                 JsonObject([k \in {cacheKey(runActionType, FileA)} |-> Unix(0)])}
         /\ fourth => cacheFile = NoCacheFile
    /\ now = 0
    /\ Items = EmptyItems
    /\ checkOnly \in BOOLEAN
    /\ jobs = << >>
    /\ closed = FALSE
    /\ ctxDone = FALSE
    /\ cpc = "config"
    /\ walk = SelectSeq(WalkOrder, LAMBDA p : fs[p].exists)
    /\ wpc = [w \in Workers |-> "notStarted"]
    /\ wpath = [w \in Workers |-> NoPath]
    /\ winfo = [w \in Workers |-> NoInfo]
    /\ wargs = [w \in Workers |-> << >>]
    /\ wfinal = [w \in Workers |-> NoPath]
    /\ werr = [w \in Workers |-> ""]
    /\ wstat = [w \in Workers |-> NoStat]
    /\ wread = [w \in Workers |-> NoInfo]
    /\ effects = {}
    /\ walkErr = FALSE
    /\ runErr = ""

\* ---- the coordinator: runProcessing lines 80-223 ----

\* lines 84-108: the policy file is read and the cache is loaded.
LoadConfig ==
    /\ cpc = "config"
    /\ Items' = NewCache(cacheFile).items
    /\ cpc' = "stat"
    /\ UNCHANGED << lvars, evars, cvars, wread, wstat, walkErr, runErr, fs, now, cacheFile, runActionType,
                    checkOnly, numWorkers, jobs, closed, ctxDone, walk, wpc, wpath,
                    winfo, wargs, wfinal, werr, effects >>

\* lines 85-88: the policy file is missing or malformed; runProcessing returns
\* the error before the cache is loaded and before the Save is deferred.
LoadConfigFails ==
    /\ cpc = "config"
    /\ runErr' = "failed to load config"
    /\ cpc' = "done"
    /\ UNCHANGED << lvars, evars, cvars, wread, wstat, walkErr, fs, now, cacheFile, Items, runActionType,
                    checkOnly, numWorkers, jobs, closed, ctxDone, walk, wpc, wpath,
                    winfo, wargs, wfinal, werr, effects >>

\* lines 121-138: os.Stat(targetDir) succeeds, the jobs channel is made.
StatTarget ==
    /\ cpc = "stat"
    /\ cpc' = "start"
    /\ UNCHANGED << lvars, evars, cvars, wread, wstat, walkErr, runErr, fs, now, cacheFile, Items,
                    runActionType, checkOnly, numWorkers, jobs, closed, ctxDone, walk,
                    wpc, wpath, winfo, wargs, wfinal, werr, effects >>

\* lines 121-124: the target path does not exist; runProcessing returns the
\* error, and the deferred Save runs.
StatTargetFails ==
    /\ cpc = "stat"
    /\ runErr' = "failed to stat target"
    /\ cpc' = "save"
    /\ UNCHANGED << lvars, evars, cvars, wread, wstat, walkErr, fs, now, cacheFile, Items, runActionType,
                    checkOnly, numWorkers, jobs, closed, ctxDone, walk, wpc, wpath,
                    winfo, wargs, wfinal, werr, effects >>

\* lines 176-179
StartWorkers ==
    /\ cpc = "start"
    /\ wpc' = [w \in Workers |-> IF w <= numWorkers THEN "range" ELSE "notStarted"]
    /\ cpc' = "walk"
    /\ UNCHANGED << lvars, evars, cvars, wread, wstat, walkErr, runErr, fs, now, cacheFile, Items, runActionType, checkOnly, numWorkers,
                    jobs, closed, ctxDone, walk, wpath, winfo, wargs, wfinal, werr,
                    effects >>

\* The WalkDir callback up to its send (lines 182-200), and WalkDir's return:
\* with ctx done the callback returns SkipDir, which ends the directory.
WalkVisit ==
    /\ cpc = "walk"
    /\ IF walk = << >> THEN cpc' = "close" /\ walk' = walk
       ELSE IF ctxDone THEN cpc' = "close" /\ walk' = << >>
       ELSE cpc' = "send" /\ walk' = walk
    /\ UNCHANGED << lvars, evars, cvars, wread, wstat, walkErr, runErr, fs, now, cacheFile, Items, runActionType, checkOnly, numWorkers,
                    jobs, closed, ctxDone, wpc, wpath, winfo, wargs, wfinal, werr,
                    effects >>

\* lines 190-192: WalkDir hands the callback the error of a directory it could
\* not read; the callback returns it and WalkDir returns it in turn.
WalkFails ==
    /\ cpc = "walk"
    /\ ~ctxDone
    /\ walkErr' = TRUE
    /\ walk' = << >>
    /\ cpc' = "close"
    /\ UNCHANGED << lvars, evars, cvars, wread, wstat, runErr, fs, now, cacheFile, Items, runActionType,
                    checkOnly, numWorkers, jobs, closed, ctxDone, wpc, wpath, winfo,
                    wargs, wfinal, werr, effects >>

\* line 201: jobs <- path, which blocks while the buffer is full
Send ==
    /\ cpc = "send"
    /\ Len(jobs) < QueueFactor * numWorkers
    /\ jobs' = Append(jobs, Head(walk))
    /\ walk' = Tail(walk)
    /\ cpc' = "walk"
    /\ UNCHANGED << lvars, evars, cvars, wread, wstat, walkErr, runErr, fs, now, cacheFile, Items, runActionType, checkOnly, numWorkers,
                    closed, ctxDone, wpc, wpath, winfo, wargs, wfinal, werr, effects >>

\* line 206
CloseJobs ==
    /\ cpc = "close"
    /\ closed' = TRUE
    /\ cpc' = "wait"
    /\ UNCHANGED << lvars, evars, cvars, wread, wstat, walkErr, runErr, fs, now, cacheFile, Items, runActionType, checkOnly, numWorkers,
                    jobs, ctxDone, walk, wpc, wpath, winfo, wargs, wfinal, werr,
                    effects >>

\* line 207, then the return of lines 209-222
WaitWorkers ==
    /\ cpc = "wait"
    /\ \A w \in Workers : w <= numWorkers => wpc[w] = "exited"
    /\ runErr' = IF ~ctxDone /\ walkErr THEN "error walking directory" ELSE ""
    /\ cpc' = "save"
    /\ UNCHANGED << lvars, evars, cvars, wread, wstat, walkErr, fs, now, cacheFile, Items, runActionType, checkOnly, numWorkers,
                    jobs, closed, ctxDone, walk, wpc, wpath, winfo, wargs, wfinal, werr,
                    effects >>

\* The deferred fileCache.Save() of lines 111-117 (main.go 215-224)
SaveCache ==
    /\ cpc = "save"
    /\ cacheFile' = MarshalItems(FALSE, Items)
    /\ cpc' = "done"
    /\ UNCHANGED << lvars, evars, cvars, wread, wstat, walkErr, runErr, fs, now, Items, runActionType, checkOnly, numWorkers, jobs,
                    closed, ctxDone, walk, wpc, wpath, winfo, wargs, wfinal, werr,
                    effects >>

\* The deferred Save fails (lines 112-113 print a warning): os.WriteFile could
\* not open the file, which is left as it was, or its write was cut short.
SaveCacheFails ==
    /\ cpc = "save"
    /\ cacheFile' \in {cacheFile, InvalidJson}
    /\ cpc' = "done"
    /\ UNCHANGED << lvars, evars, cvars, wread, wstat, walkErr, runErr, fs, now, Items, runActionType, checkOnly, numWorkers, jobs,
                    closed, ctxDone, walk, wpc, wpath, winfo, wargs, wfinal, werr,
                    effects >>

\* ---- a worker: runProcessing lines 140-173 and remuxFile ----

\* Worker w is back at "for path := range jobs" with its locals cleared.
BackToRange(w) ==
    /\ wpc' = [wpc EXCEPT ![w] = "range"]
    /\ wpath' = [wpath EXCEPT ![w] = NoPath]
    /\ winfo' = [winfo EXCEPT ![w] = NoInfo]
    /\ wargs' = [wargs EXCEPT ![w] = << >>]
    /\ wfinal' = [wfinal EXCEPT ![w] = NoPath]
    /\ werr' = [werr EXCEPT ![w] = ""]

\* remuxFile returns (finalPath, err) to worker w.
Return(w, finalPath, err) ==
    /\ wfinal' = [wfinal EXCEPT ![w] = finalPath]
    /\ werr' = [werr EXCEPT ![w] = err]
    /\ wpc' = [wpc EXCEPT ![w] = "result"]

\* line 142: "for path := range jobs" hands the worker a job, or ends the
\* loop when the channel is closed and empty.
ReceiveJob(w) ==
    /\ wpc[w] = "range"
    /\ IF jobs # << >>
       THEN /\ jobs' = Tail(jobs)
            /\ wpc' = [wpc EXCEPT ![w] = "select"]
            /\ wpath' = [wpath EXCEPT ![w] = Head(jobs)]
       ELSE /\ closed
            /\ jobs' = jobs
            /\ wpc' = [wpc EXCEPT ![w] = "exited"]
            /\ wpath' = wpath
    /\ UNCHANGED << lvars, evars, cvars, wread, wstat, walkErr, runErr, fs, now, cacheFile, Items, runActionType, checkOnly, numWorkers,
                    closed, ctxDone, cpc, walk, winfo, wargs, wfinal, werr, effects >>

\* A mutant of SelectCtx: ctx is not looked at before a job is started.
SelectCtx_noCtxCheck(w) ==
    /\ wpc[w] = "select"
    /\ wpc' = [wpc EXCEPT ![w] = "check"]
    /\ wpath' = wpath
    /\ UNCHANGED << lvars, evars, cvars, wread, wstat, walkErr, runErr, fs, now, cacheFile, Items, runActionType, checkOnly, numWorkers,
                    jobs, closed, ctxDone, cpc, walk, winfo, wargs, wfinal, werr, effects >>

\* lines 144-148: the select on ctx.Done(); with ctx done the worker returns,
\* the job it has just received unprocessed.
SelectCtx(w) ==
    /\ wpc[w] = "select"
    /\ IF ctxDone
       THEN /\ wpc' = [wpc EXCEPT ![w] = "exited"]
            /\ wpath' = [wpath EXCEPT ![w] = NoPath]
       ELSE /\ wpc' = [wpc EXCEPT ![w] = "check"]
            /\ wpath' = wpath
    /\ UNCHANGED << lvars, evars, cvars, wread, wstat, walkErr, runErr, fs, now, cacheFile, Items, runActionType, checkOnly, numWorkers,
                    jobs, closed, ctxDone, cpc, walk, winfo, wargs, wfinal, werr, effects >>

\* lines 150-156 and Check's os.Stat (main.go lines 170-179): the key is
\* built and the file stat'ed; when the stat fails Check returns (false, err)
\* and the job goes on to remuxFile.
CacheStat(w) ==
    /\ wpc[w] = "check"
    /\ IF fs[wpath[w]].exists
       THEN /\ wstat' = [wstat EXCEPT ![w] = Unix(fs[wpath[w]].mtime)]
            /\ wpc' = [wpc EXCEPT ![w] = "checkRead"]
       ELSE /\ wstat' = wstat
            /\ wpc' = [wpc EXCEPT ![w] = "inspect"]
    /\ UNCHANGED << lvars, evars, cvars, wread, walkErr, runErr, fs, now, cacheFile, Items, runActionType, checkOnly, numWorkers,
                    jobs, closed, ctxDone, cpc, walk, wpath, winfo, wargs, wfinal, werr, effects >>

\* A mutant of CacheCheck: the job goes on to remuxFile, hit or not.
CacheCheck_ignoresHit(w) ==
    /\ wpc[w] = "checkRead"
    /\ wstat' = [wstat EXCEPT ![w] = NoStat]
    /\ wpc' = [wpc EXCEPT ![w] = "inspect"]
    /\ UNCHANGED << wpath, winfo, wargs, wfinal, werr >>
    /\ UNCHANGED << lvars, evars, cvars, wread, walkErr, runErr, fs, now, cacheFile, Items, runActionType,
                    checkOnly, numWorkers, jobs, closed, ctxDone, cpc, walk, effects >>

\* Check's read of the map under the read lock and its comparison with the
\* time the stat gave (main.go lines 181-193), then lines 156-158: a hit
\* skips the job.
CacheCheck(w) ==
    /\ wpc[w] = "checkRead"
    /\ wstat' = [wstat EXCEPT ![w] = NoStat]
    /\ IF IsCached(Items, cacheKey(runActionType, wpath[w]), wstat[w])
       THEN BackToRange(w)
       ELSE /\ wpc' = [wpc EXCEPT ![w] = "inspect"]
            /\ UNCHANGED << wpath, winfo, wargs, wfinal, werr >>
    /\ UNCHANGED << lvars, evars, cvars, wread, walkErr, runErr, fs, now, cacheFile, Items, runActionType, checkOnly, numWorkers,
                    jobs, closed, ctxDone, cpc, walk, effects >>

\* remuxFile lines 23-35 failing: "mkvmerge -J" fails (always so on a missing
\* or half-written file, and when ctx is done) or its output does not parse.
InspectFails(w) ==
    /\ wpc[w] = "inspect"
    /\ \E err \in {"mkvmerge inspection failed", "json parsing failed"} :
         Return(w, NoPath, err)
    /\ UNCHANGED << lvars, evars, cvars, wread, wstat, walkErr, runErr, fs, now, cacheFile, Items, runActionType, checkOnly, numWorkers,
                    jobs, closed, ctxDone, cpc, walk, wpath, winfo, wargs, effects >>

\* A mutant of Inspect: in check-only mode a file that needs fixing is
\* returned with its path, as a compliant one is.
Inspect_checkOnlyReturnsPath(w) ==
    /\ wpc[w] = "inspect"
    /\ fs[wpath[w]].exists /\ ~fs[wpath[w]].partial /\ ~ctxDone
    /\ LET info == fs[wpath[w]].info
           st == checkRequirements(info, RunConfig, runActionType)
       IN  /\ winfo' = [winfo EXCEPT ![w] = info]
           /\ effects' = effects \cup {Effect(wpath[w], Verdict(st), wpath[w])}
           /\ IF st.hasVideo /\ ~st.needsFix
              THEN Return(w, wpath[w], "") /\ wargs' = wargs
              ELSE IF checkOnly
              THEN Return(w, wpath[w], "") /\ wargs' = wargs
              ELSE /\ wargs' = [wargs EXCEPT ![w] =
                                  buildArgs(wpath[w], info, RunConfig, runActionType)]
                   /\ wpc' = [wpc EXCEPT ![w] = "run"]
                   /\ UNCHANGED << wfinal, werr >>
    /\ UNCHANGED << lvars, evars, cvars, wread, wstat, walkErr, runErr, fs, now, cacheFile, Items, runActionType, checkOnly, numWorkers,
                    jobs, closed, ctxDone, cpc, walk, wpath >>

\* remuxFile lines 23-170 with the inspection succeeding: the file is judged,
\* and remuxFile returns (compliant, or non-compliant in check-only mode) or
\* has built the remux command.
Inspect(w) ==
    /\ wpc[w] = "inspect"
    /\ fs[wpath[w]].exists /\ ~fs[wpath[w]].partial /\ ~ctxDone
    /\ LET info == fs[wpath[w]].info
           st == checkRequirements(info, RunConfig, runActionType)
       IN  /\ winfo' = [winfo EXCEPT ![w] = info]
           /\ effects' = effects \cup {Effect(wpath[w], Verdict(st), wpath[w])}
           /\ IF st.hasVideo /\ ~st.needsFix
              THEN Return(w, wpath[w], "") /\ wargs' = wargs
              ELSE IF checkOnly
              THEN Return(w, NoPath, "") /\ wargs' = wargs
              ELSE /\ wargs' = [wargs EXCEPT ![w] =
                                  buildArgs(wpath[w], info, RunConfig, runActionType)]
                   /\ wpc' = [wpc EXCEPT ![w] = "run"]
                   /\ UNCHANGED << wfinal, werr >>
    /\ UNCHANGED << lvars, evars, cvars, wread, wstat, walkErr, runErr, fs, now, cacheFile, Items, runActionType, checkOnly, numWorkers,
                    jobs, closed, ctxDone, cpc, walk, wpath >>

\* The output file named by the command's -o option.
outputOf(args) == optOf(args, "-o").path

\* Whether a whole file is at the path: one that is there and is not the
\* output of a remux still being written.
IsWhole(file) == file.exists /\ ~file.partial

\* remuxFile lines 173-178: the remux command starts, opens its input, and
\* opens its output file, truncating whatever is at that path.
StartRemux(w) ==
    /\ wpc[w] = "run"
    /\ ~ctxDone
    /\ fs' = [fs EXCEPT ![outputOf(wargs[w])] = PartialFile(now)]
    /\ wread' = [wread EXCEPT ![w] = IF IsWhole(fs[wpath[w]])
                                     THEN fs[wpath[w]].info ELSE NoInfo]
    /\ effects' = effects \cup {Effect(wpath[w], "remux", outputOf(wargs[w]))}
    /\ wpc' = [wpc EXCEPT ![w] = "running"]
    /\ UNCHANGED << lvars, evars, cvars, wstat, walkErr, runErr, now, cacheFile, Items, runActionType, checkOnly, numWorkers, jobs,
                    closed, ctxDone, cpc, walk, wpath, winfo, wargs, wfinal, werr >>

\* remuxFile lines 178-182: Run returns an error (the command cannot start
\* because ctx is done, it fails, or it is killed when ctx is cancelled);
\* os.Remove(outputFile) is called and its error dropped, so the file at the
\* output path is removed or, when the removal fails, stays; the error of
\* Run is returned.
RemuxFails(w) ==
    /\ wpc[w] \in {"run", "running"}
    /\ wpc[w] = "run" => ctxDone
    /\ fs' \in {fs, [fs EXCEPT ![outputOf(wargs[w])] = NoFile]}
    /\ effects' = effects \cup
         {Effect(wpath[w], "failed", outputOf(wargs[w]))} \cup
         (IF fs'[outputOf(wargs[w])] # fs[outputOf(wargs[w])]
          THEN {Effect(wpath[w], "delete", outputOf(wargs[w]))} ELSE {})
    /\ Return(w, NoPath, "remux command failed")
    /\ wread' = [wread EXCEPT ![w] = NoInfo]
    /\ UNCHANGED << lvars, evars, cvars, wstat, walkErr, runErr, now, cacheFile, Items, runActionType, checkOnly, numWorkers, jobs,
                    closed, ctxDone, cpc, walk, wpath, winfo, wargs >>

\* What the running remux command can have read as its input: the file as
\* it was when the command opened it, or, the file having been written again
\* by another job meanwhile, the whole file that is at the path now.
ReadByTool(w) ==
    (IF wread[w] # NoInfo THEN {wread[w]} ELSE {}) \cup
    (IF IsWhole(fs[wpath[w]]) THEN {fs[wpath[w]].info} ELSE {})

\* remuxFile line 178 with Run returning nil: the command read the input and
\* completed the file it had opened as its output before any cancellation.
\* That file is at the output path unless the path was removed while the
\* command ran (os.Remove of another job, lines 180 and 185): the command
\* then wrote to a file without a name, and the path stays absent.  The
\* output's modification time is the time of this write: the clock is read
\* by writes only, so the time that passed since the last one is taken here.
RemuxSucceeds(w) ==
    /\ wpc[w] = "running"
    /\ ~ctxDone
    /\ \E info \in ReadByTool(w), t \in now..MaxClock :
         IF fs[outputOf(wargs[w])].exists
         THEN /\ now' = t
              /\ fs' = [fs EXCEPT ![outputOf(wargs[w])] =
                          File(mkvmerge(info, wargs[w]), t)]
         ELSE /\ now' = now
              /\ fs' = fs
    /\ wread' = [wread EXCEPT ![w] = NoInfo]
    /\ wpc' = [wpc EXCEPT ![w] = "removeOld"]
    /\ UNCHANGED << lvars, evars, cvars, wstat, walkErr, runErr, cacheFile, Items, runActionType, checkOnly, numWorkers, jobs,
                    closed, ctxDone, cpc, walk, wpath, winfo, wargs, wfinal, werr,
                    effects >>

\* A mutant of RemoveOld: the output path is returned, the original kept.
RemoveOld_keepsOriginal(w) ==
    /\ wpc[w] = "removeOld"
    /\ fs[wpath[w]].exists
    /\ Return(w, outputOf(wargs[w]), "")
    /\ UNCHANGED << lvars, evars, cvars, wread, wstat, walkErr, runErr, fs, now, cacheFile, Items, runActionType, checkOnly, numWorkers,
                    jobs, closed, ctxDone, cpc, walk, wpath, winfo, wargs, effects >>

\* remuxFile lines 184-190: the original is removed and the output path
\* returned.
RemoveOld(w) ==
    /\ wpc[w] = "removeOld"
    /\ fs[wpath[w]].exists
    /\ fs' = [fs EXCEPT ![wpath[w]] = NoFile]
    /\ effects' = effects \cup {Effect(wpath[w], "delete", wpath[w])}
    /\ Return(w, outputOf(wargs[w]), "")
    /\ UNCHANGED << lvars, evars, cvars, wread, wstat, walkErr, runErr, now, cacheFile, Items, runActionType, checkOnly, numWorkers, jobs,
                    closed, ctxDone, cpc, walk, wpath, winfo, wargs >>

\* remuxFile lines 185-187: os.Remove(inputFile) fails.
RemoveOldFails(w) ==
    /\ wpc[w] = "removeOld"
    /\ Return(w, NoPath, "could not delete original file")
    /\ UNCHANGED << lvars, evars, cvars, wread, wstat, walkErr, runErr, fs, now, cacheFile, Items, runActionType, checkOnly, numWorkers,
                    jobs, closed, ctxDone, cpc, walk, wpath, winfo, wargs, effects >>

\* A mutant of HandleResult: a worker whose job failed returns.
HandleResult_stopOnError(w) ==
    /\ wpc[w] = "result"
    /\ IF werr[w] = "" /\ wfinal[w] # NoPath /\ fs[wfinal[w]].exists
       THEN /\ wstat' = [wstat EXCEPT ![w] = Unix(fs[wfinal[w]].mtime)]
            /\ wpc' = [wpc EXCEPT ![w] = "store"]
            /\ UNCHANGED << wpath, winfo, wargs, wfinal, werr >>
       ELSE IF werr[w] = ""
       THEN BackToRange(w) /\ wstat' = wstat
       ELSE /\ wpc' = [wpc EXCEPT ![w] = "exited"]
            /\ UNCHANGED << wstat, wpath, winfo, wargs, wfinal, werr >>
    /\ UNCHANGED << lvars, evars, cvars, wread, walkErr, runErr, fs, now, cacheFile, Items, runActionType, checkOnly, numWorkers, jobs,
                    closed, ctxDone, cpc, walk, effects >>

\* lines 160-167 and Update's os.Stat (main.go lines 197-206): an error of
\* remuxFile is printed; with a final path Update is called and stats it;
\* when that stat fails Update returns the error, which is printed too.  The
\* worker then ranges on, or goes on to Update's store.
HandleResult(w) ==
    /\ wpc[w] = "result"
    /\ IF werr[w] = "" /\ wfinal[w] # NoPath /\ fs[wfinal[w]].exists
       THEN /\ wstat' = [wstat EXCEPT ![w] = Unix(fs[wfinal[w]].mtime)]
            /\ wpc' = [wpc EXCEPT ![w] = "store"]
            /\ UNCHANGED << wpath, winfo, wargs, wfinal, werr >>
       ELSE BackToRange(w) /\ wstat' = wstat
    /\ UNCHANGED << lvars, evars, cvars, wread, walkErr, runErr, fs, now, cacheFile, Items, runActionType, checkOnly, numWorkers, jobs,
                    closed, ctxDone, cpc, walk, effects >>

\* Update's store under the write lock (main.go lines 208-211): the time the
\* stat gave goes under the key of the job.
UpdateStore(w) ==
    /\ wpc[w] = "store"
    /\ Items' = Store(Items, cacheKey(runActionType, wpath[w]), wstat[w])
    /\ effects' = effects \cup {Effect(wpath[w], "cache", wfinal[w])}
    /\ wstat' = [wstat EXCEPT ![w] = NoStat]
    /\ BackToRange(w)
    /\ UNCHANGED << lvars, evars, cvars, wread, walkErr, runErr, fs, now, cacheFile, runActionType, checkOnly, numWorkers, jobs,
                    closed, ctxDone, cpc, walk >>

\* ---- the environment ----

\* signal.NotifyContext (line 80) with its deferred stop() (line 81), which
\* runs last, after the deferred Save: an interrupt cancels ctx at any time
\* before runProcessing has returned.
Interrupt ==
    /\ ~ctxDone
    /\ cpc # "done"
    /\ ctxDone' = TRUE
    /\ UNCHANGED << lvars, evars, cvars, wread, wstat, walkErr, runErr, fs, now, cacheFile, Items, runActionType, checkOnly, numWorkers,
                    jobs, closed, cpc, walk, wpc, wpath, winfo, wargs, wfinal, werr,
                    effects >>

WorkerStep(w) ==
    \/ ReceiveJob(w)
    \/ SelectCtx(w)
    \/ CacheStat(w)
    \/ CacheCheck(w)
    \/ InspectFails(w)
    \/ Inspect(w)
    \/ StartRemux(w)
    \/ RemuxFails(w)
    \/ RemuxSucceeds(w)
    \/ RemoveOld(w)
    \/ RemoveOldFails(w)
    \/ HandleResult(w)
    \/ UpdateStore(w)

Next ==
    \/ LoadConfig
    \/ LoadConfigFails
    \/ StatTarget
    \/ StatTargetFails
    \/ StartWorkers
    \/ WalkVisit
    \/ WalkFails
    \/ Send
    \/ CloseJobs
    \/ WaitWorkers
    \/ SaveCache
    \/ SaveCacheFails
    \/ \E w \in Workers : WorkerStep(w)
    \/ Interrupt

Spec == Init /\ [][Next]_vars

\* The run under fair scheduling: the Go runtime runs every goroutine that can
\* take a step, and the external tools a worker waits for return.
Coordinator ==
    \/ LoadConfig
    \/ LoadConfigFails
    \/ StatTarget
    \/ StatTargetFails
    \/ StartWorkers
    \/ WalkVisit
    \/ WalkFails
    \/ Send
    \/ CloseJobs
    \/ WaitWorkers
    \/ SaveCache
    \/ SaveCacheFails

FairSpec ==
    /\ Spec
    /\ WF_vars(Coordinator)
    /\ \A w \in Workers : WF_vars(WorkerStep(w))

\* The run that no interrupt reaches, under the same fair scheduling.
NextNoSignal ==
    \/ Coordinator
    \/ \E w \in Workers : WorkerStep(w)

FairSpecNoSignal ==
    /\ Init
    /\ [][NextNoSignal]_vars
    /\ WF_vars(Coordinator)
    /\ \A w \in Workers : WF_vars(WorkerStep(w))

----------------------------------------------------------------------------
(* SpecEval: remuxFile's evaluation and remediation of one inspected file,  *)
(* then the next run's evaluation of the file it wrote.                     *)

EvalInput == Path("a", 0)

InitEval ==
    /\ RunIdle
    /\ LockIdle
    /\ CacheIdle
    /\ e_info \in Infos
    /\ e_cfg \in Configs
    /\ e_actionType \in ActionTypes
    /\ e_pc = "inspected"
    /\ e_hasVideo = FALSE
    /\ e_needsFix = FALSE
    /\ e_args = << >>
    /\ e_out = [Tracks |-> << >>]
    /\ e_hasVideo2 = FALSE
    /\ e_needsFix2 = FALSE

\* remuxFile lines 40-90
EvalCheck ==
    /\ e_pc = "inspected"
    /\ LET st == checkRequirements(e_info, e_cfg, e_actionType)
       IN  /\ e_hasVideo' = st.hasVideo
           /\ e_needsFix' = st.needsFix
           /\ e_pc' = IF st.hasVideo /\ ~st.needsFix THEN "compliant" ELSE "needsFixing"
    /\ UNCHANGED << lvars, rvars, cvars, e_info, e_cfg, e_actionType, e_args, e_out, e_hasVideo2, e_needsFix2 >>

\* remuxFile lines 97-170
EvalBuild ==
    /\ e_pc = "needsFixing"
    /\ e_args' = buildArgs(EvalInput, e_info, e_cfg, e_actionType)
    /\ e_pc' = "built"
    /\ UNCHANGED << lvars, rvars, cvars, e_info, e_cfg, e_actionType, e_hasVideo, e_needsFix, e_out,
                    e_hasVideo2, e_needsFix2 >>

\* remuxFile lines 172-190, the tool succeeding
EvalRemux ==
    /\ e_pc = "built"
    /\ e_out' = mkvmerge(e_info, e_args)
    /\ e_pc' = "remuxed"
    /\ UNCHANGED << lvars, rvars, cvars, e_info, e_cfg, e_actionType, e_hasVideo, e_needsFix, e_args,
                    e_hasVideo2, e_needsFix2 >>

\* remuxFile lines 40-90 of the next run, on the output file
EvalRecheck ==
    /\ e_pc = "remuxed"
    /\ LET st == checkRequirements(e_out, e_cfg, e_actionType)
       IN  /\ e_hasVideo2' = st.hasVideo
           /\ e_needsFix2' = st.needsFix
    /\ e_pc' = "rechecked"
    /\ UNCHANGED << lvars, rvars, cvars, e_info, e_cfg, e_actionType, e_hasVideo, e_needsFix, e_args, e_out >>

NextEval == EvalCheck \/ EvalBuild \/ EvalRemux \/ EvalRecheck

SpecEval == InitEval /\ [][NextEval]_vars

----------------------------------------------------------------------------
(* SpecCache: Check and Update called on one Cache for the file a.mkv,  *)
(* which is meanwhile modified, removed and written again.               *)

\* The variables of the run other than the directory and the cache's map.
rvarsNotCache == << now, runActionType, checkOnly, numWorkers, jobs, closed,
                    ctxDone, cpc, walk, wpc, wpath, winfo, wargs, wfinal, werr, wstat,
                    wread, effects, walkErr, runErr >>

\* The keys of a.mkv: one per scope.
CacheKeys == {cacheKey(scope, FileA) : scope \in ActionTypes}

\* The maps a well-formed cache file can hold: any entries for a.mkv.
LoadedItems ==
    UNION {[K -> 0..Unix(MaxClock)] : K \in SUBSET CacheKeys}

\* Objects with a member of the wrong type: "all:a.mkv" has a string for its
\* value, next to no other member or to a good one.
BadValueFiles ==
    {CacheFileOf("object", items, {cacheKey(ActionAll, FileA)}) :
        items \in UNION {[K -> 0..Unix(MaxClock)] :
                            K \in SUBSET {cacheKey(ActionAudio, FileA)}}}

\* The cache files NewCache can meet.
CacheFiles ==
    {NoCacheFile, InvalidJson, JsonNull, UnreadableFile}
      \cup {JsonObject(items) : items \in LoadedItems}
      \cup BadValueFiles

\* fileCache as runProcessing holds it after lines 101-108: on an error of
\* NewCache it calls NewCache again and drops the error, which leaves nil.
LoadedCache(file) ==
    IF NewCache(file).err THEN "nil"
    ELSE IF NewCache(file).isNil THEN "nilMap"
    ELSE "map"

\* The calls after which the process goes on.
Running == {"loaded", "touch", "remove", "update", "check"}

InitCache ==
    /\ EvalIdle
    /\ LockIdle
    /\ fs \in {[p \in Paths |-> IF p = FileA THEN f ELSE NoFile] :
                 f \in {NoFile} \cup {File(CompliantInfo, t) : t \in 0..MaxClock}}
    /\ cacheFile \in CacheFiles
    /\ Items = NewCache(cacheFile).items
    /\ c_cache = LoadedCache(cacheFile)
    /\ c_prev = cacheFile
    /\ now = 0
    /\ runActionType = ActionAll
    /\ checkOnly = FALSE
    /\ numWorkers = 1
    /\ jobs = << >>
    /\ closed = FALSE
    /\ ctxDone = FALSE
    /\ cpc = "done"
    /\ walk = << >>
    /\ wpc = [w \in Workers |-> "notStarted"]
    /\ wpath = [w \in Workers |-> NoPath]
    /\ winfo = [w \in Workers |-> NoInfo]
    /\ wargs = [w \in Workers |-> << >>]
    /\ wfinal = [w \in Workers |-> NoPath]
    /\ werr = [w \in Workers |-> ""]
    /\ wstat = [w \in Workers |-> NoStat]
    /\ wread = [w \in Workers |-> NoInfo]
    /\ effects = {}
    /\ walkErr = FALSE
    /\ runErr = ""
    /\ c_op = "loaded"
    /\ c_key = cacheKey(ActionAll, FileA)
    /\ c_hit = FALSE
    /\ c_seen = EmptyItems

\* a.mkv is written (again): its modification time becomes another one.
CacheTouch ==
    /\ c_op \in Running
    /\ \E t \in 0..MaxClock :
         /\ fs[FileA].exists => t # fs[FileA].mtime
         /\ fs' = [fs EXCEPT ![FileA] = File(CompliantInfo, t)]
    /\ c_op' = "touch"
    /\ UNCHANGED << lvars, evars, rvarsNotCache, cacheFile, Items, c_key, c_hit, c_seen,
                    c_cache, c_prev >>

\* a.mkv is removed: the stat of Check and Update fails from now on.
CacheRemoveFile ==
    /\ c_op \in Running
    /\ fs[FileA].exists
    /\ fs' = [fs EXCEPT ![FileA] = NoFile]
    /\ c_op' = "remove"
    /\ UNCHANGED << lvars, evars, rvarsNotCache, cacheFile, Items, c_key, c_hit, c_seen,
                    c_cache, c_prev >>

\* fileCache.Update(key, "a.mkv") (main.go 197-212): the stat comes first and
\* its error is returned; the store then panics on a nil Cache (c.mu) and on a
\* nil map (assignment to entry in nil map).
CacheUpdate ==
    /\ c_op \in Running
    /\ \E key \in CacheKeys :
         /\ c_key' = key
         /\ IF fs[FileA].exists /\ c_cache # "map"
            THEN /\ c_op' = "panic"
                 /\ UNCHANGED << Items, c_seen >>
            ELSE /\ c_op' = "update"
                 /\ Items' = Update(Items, fs, key, FileA)
                 /\ c_seen' = IF fs[FileA].exists
                              THEN [k \in DOMAIN c_seen \cup {key} |->
                                      IF k = key THEN fs[FileA].mtime ELSE c_seen[k]]
                              ELSE c_seen
    /\ UNCHANGED << lvars, evars, rvarsNotCache, cacheFile, fs, c_hit, c_cache, c_prev >>

\* fileCache.Check(key, "a.mkv") (main.go 170-194): the stat comes first; the
\* lookup then panics on a nil Cache (c.mu) and finds nothing in a nil map.
CacheLookup ==
    /\ c_op \in Running
    /\ \E key \in CacheKeys :
         /\ c_key' = key
         /\ IF fs[FileA].exists /\ c_cache = "nil"
            THEN c_op' = "panic" /\ c_hit' = FALSE
            ELSE c_op' = "check" /\ c_hit' = Check(Items, fs, key, FileA)
    /\ UNCHANGED << lvars, evars, rvarsNotCache, cacheFile, fs, Items, c_seen, c_cache,
                    c_prev >>

\* fileCache.Save() up to the open of os.WriteFile (main.go 215-223): the map
\* is marshalled (a nil Cache panics at c.mu), and the file is opened with
\* O_TRUNC, which empties it.
CacheSaveOpen ==
    /\ c_op \in Running \cup {"saved"}
    /\ IF c_cache = "nil"
       THEN c_op' = "panic" /\ UNCHANGED << cacheFile, c_prev >>
       ELSE /\ c_op' = "saving"
            /\ c_prev' = cacheFile
            /\ cacheFile' = InvalidJson
    /\ UNCHANGED << lvars, evars, rvarsNotCache, fs, Items, c_key, c_hit, c_seen, c_cache >>

\* os.WriteFile writes the marshalled map and closes the file.
CacheSaveWrite ==
    /\ c_op = "saving"
    /\ cacheFile' = MarshalItems(c_cache = "nilMap", Items)
    /\ c_op' = "saved"
    /\ UNCHANGED << lvars, evars, rvarsNotCache, fs, Items, c_key, c_hit, c_seen, c_cache,
                    c_prev >>

\* The process is killed, or the machine stops, while Save is writing.
CacheCrash ==
    /\ c_op = "saving"
    /\ c_op' = "crashed"
    /\ UNCHANGED << lvars, evars, rvarsNotCache, cacheFile, fs, Items, c_key, c_hit, c_seen,
                    c_cache, c_prev >>

NextCache ==
    \/ CacheTouch
    \/ CacheRemoveFile
    \/ CacheUpdate
    \/ CacheLookup
    \/ CacheSaveOpen
    \/ CacheSaveWrite
    \/ CacheCrash

SpecCache == InitCache /\ [][NextCache]_vars

----------------------------------------------------------------------------
(* SpecLock: the goroutines of a run at the lock of the Cache: every worker  *)
(* calls Check and then, or not, Update for each of its jobs; runProcessing  *)
(* calls Save once its workers have returned.                                *)

\* The jobs a worker handles.
MaxJobs == 2

\* The goroutines: runProcessing itself (0) and its workers.
Goroutines == 0..MaxWorkers

\* The key of worker w's current job.
LockKey(w) == cacheKey(ActionAll, Path(IF w = 1 THEN "a" ELSE "b", l_job[w]))

InitLock ==
    /\ EvalIdle
    /\ RunIdle
    /\ CacheIdle
    /\ mu_w = {}
    /\ mu_r = {}
    /\ mu_pending = {}
    /\ l_pc = [g \in Goroutines |-> IF g = 0 THEN "wait" ELSE "check"]
    /\ l_job = [w \in Workers |-> 0]
    /\ l_items = EmptyItems

\* Worker w is done with its job: the next one, or the end of its loop.
NextJob(w) ==
    /\ l_job' = [l_job EXCEPT ![w] = l_job[w] + 1]
    /\ l_pc' = [l_pc EXCEPT ![w] = IF l_job[w] + 1 >= MaxJobs THEN "exited" ELSE "check"]

\* The goroutines that hold rw.w, the mutex inside sync.RWMutex that orders
\* the writers: from the return of rw.w.Lock() in Lock() to Unlock().
HoldsW == {w \in Workers : l_pc[w] \in {"wLocked", "announced", "writing"}}

\* Check, main.go lines 176-179: os.Stat fails and Check returns (false, err)
\* before it comes to the lock.
CheckStatFails(w) ==
    /\ l_pc[w] = "check"
    /\ l_pc' = [l_pc EXCEPT ![w] = "checked"]
    /\ UNCHANGED << evars, rvars, cvars, mu_w, mu_r, mu_pending, l_job, l_items >>

\* Check, main.go line 181: c.mu.RLock() returns at once unless a writer
\* holds the lock or has announced itself (a writer still blocked on rw.w
\* has not); otherwise the reader is blocked until that writer's Unlock().
\* Line 182 reads the map.
CheckRLock(w) ==
    /\ l_pc[w] = "check"
    /\ IF mu_w = {} /\ mu_pending = {}
       THEN /\ mu_r' = mu_r \cup {w}
            /\ l_pc' = [l_pc EXCEPT ![w] = "reading"]
       ELSE /\ mu_r' = mu_r
            /\ l_pc' = [l_pc EXCEPT ![w] = "rlockWait"]
    /\ UNCHANGED << evars, rvars, cvars, mu_w, mu_pending, l_job, l_items >>

\* Check, main.go line 183: c.mu.RUnlock()
CheckRUnlock(w) ==
    /\ l_pc[w] = "reading"
    /\ mu_r' = mu_r \ {w}
    /\ l_pc' = [l_pc EXCEPT ![w] = "checked"]
    /\ UNCHANGED << evars, rvars, cvars, mu_w, mu_pending, l_job, l_items >>

\* part_001 lines 156-163: the job was a hit, or remuxFile returned an error
\* or no final path: no Update; or Update's os.Stat failed (main.go lines
\* 203-206) and it returned before the lock.
NoUpdate(w) ==
    /\ l_pc[w] = "checked"
    /\ NextJob(w)
    /\ UNCHANGED << evars, rvars, cvars, mu_w, mu_r, mu_pending, l_items >>

\* Update, main.go line 208: the call of c.mu.Lock()
UpdateCallsLock(w) ==
    /\ l_pc[w] = "checked"
    /\ l_pc' = [l_pc EXCEPT ![w] = "lockWait"]
    /\ UNCHANGED << evars, rvars, cvars, mu_w, mu_r, mu_pending, l_job, l_items >>

\* Inside Lock(): rw.w.Lock() returns when no other writer holds rw.w.
UpdateLockW(w) ==
    /\ l_pc[w] = "lockWait"
    /\ HoldsW = {}
    /\ l_pc' = [l_pc EXCEPT ![w] = "wLocked"]
    /\ UNCHANGED << evars, rvars, cvars, mu_w, mu_r, mu_pending, l_job, l_items >>

\* Inside Lock(): the writer announces itself, which from now on keeps new
\* readers out.
UpdateAnnounce(w) ==
    /\ l_pc[w] = "wLocked"
    /\ mu_pending' = mu_pending \cup {w}
    /\ l_pc' = [l_pc EXCEPT ![w] = "announced"]
    /\ UNCHANGED << evars, rvars, cvars, mu_w, mu_r, l_job, l_items >>

\* A mutant of UpdateLock: Lock() does not wait for the readers to leave.
UpdateLock_noExclusion(w) ==
    /\ l_pc[w] = "announced"
    /\ mu_w' = mu_w \cup {w}
    /\ mu_pending' = mu_pending \ {w}
    /\ l_pc' = [l_pc EXCEPT ![w] = "writing"]
    /\ UNCHANGED << evars, rvars, cvars, mu_r, l_job, l_items >>

\* Update, main.go line 208: c.mu.Lock() returns when the readers that held
\* the lock at the announcement have left.
UpdateLock(w) ==
    /\ l_pc[w] = "announced"
    /\ mu_r = {}
    /\ mu_w' = {w}
    /\ mu_pending' = mu_pending \ {w}
    /\ l_pc' = [l_pc EXCEPT ![w] = "writing"]
    /\ UNCHANGED << evars, rvars, cvars, mu_r, l_job, l_items >>

\* Update, main.go lines 209-210: the store, then c.mu.Unlock(), which lets
\* in the readers blocked meanwhile and releases rw.w.
UpdateUnlock(w) ==
    /\ l_pc[w] = "writing"
    /\ l_items' = [k \in DOMAIN l_items \cup {LockKey(w)} |->
                     IF k = LockKey(w) THEN Unix(0) ELSE l_items[k]]
    /\ mu_w' = mu_w \ {w}
    /\ mu_r' = mu_r \cup {v \in Workers : l_pc[v] = "rlockWait"}
    /\ l_job' = [l_job EXCEPT ![w] = l_job[w] + 1]
    /\ l_pc' = [g \in Goroutines |->
                  IF g = w THEN (IF l_job[w] + 1 >= MaxJobs THEN "exited" ELSE "check")
                  ELSE IF l_pc[g] = "rlockWait" THEN "reading"
                  ELSE l_pc[g]]
    /\ UNCHANGED << evars, rvars, cvars, mu_pending >>

\* The deferred Save after wg.Wait (part_001 lines 207, 111-117), main.go
\* line 216: c.mu.RLock(); line 217 reads the map.
SaveRLock ==
    /\ l_pc[0] = "wait"
    /\ \A w \in Workers : l_pc[w] = "exited"
    /\ mu_w = {} /\ mu_pending = {}
    /\ mu_r' = mu_r \cup {0}
    /\ l_pc' = [l_pc EXCEPT ![0] = "saving"]
    /\ UNCHANGED << evars, rvars, cvars, mu_w, mu_pending, l_job, l_items >>

\* Save, main.go line 218: c.mu.RUnlock()
SaveRUnlock ==
    /\ l_pc[0] = "saving"
    /\ mu_r' = mu_r \ {0}
    /\ l_pc' = [l_pc EXCEPT ![0] = "done"]
    /\ UNCHANGED << evars, rvars, cvars, mu_w, mu_pending, l_job, l_items >>

NextLock ==
    \/ \E w \in Workers :
          \/ CheckStatFails(w)
          \/ CheckRLock(w)
          \/ CheckRUnlock(w)
          \/ NoUpdate(w)
          \/ UpdateCallsLock(w)
          \/ UpdateLockW(w)
          \/ UpdateAnnounce(w)
          \/ UpdateLock(w)
          \/ UpdateUnlock(w)
    \/ SaveRLock
    \/ SaveRUnlock

SpecLock == InitLock /\ [][NextLock]_vars

----------------------------------------------------------------------------
(* What the claims speak of, stated without the loops of the code *)

Sentinels == {"und", "unk"}

TracksOfType(info, type) == SelectSeq(info.Tracks, LAMBDA t : t.Type = type)

HasTrackOfType(info, type) == \E i \in 1..Len(info.Tracks) : info.Tracks[i].Type = type

ListSet(list) == {list[i] : i \in 1..Len(list)}

\* The ids of the tracks of a type whose language is in the allow-list, in
\* declaration order.
AllowedIds(info, type, list) ==
    LET sel == SelectSeq(info.Tracks,
                         LAMBDA t : t.Type = type /\ t.Language \in ListSet(list))
    IN  [k \in 1..Len(sel) |-> sel[k].ID]

AudioInScope(actionType) == actionType \in {ActionAll, ActionAudio}
SubtitleInScope(actionType) == actionType \in {ActionAll, ActionSubtitle}

\* The languages of the audio tracks, in declaration order.
AudioLanguagesOf(info) ==
    LET sel == TracksOfType(info, "audio") IN [k \in 1..Len(sel) |-> sel[k].Language]

VideoTracks(info) == {i \in 1..Len(info.Tracks) : info.Tracks[i].Type = "video"}

----------------------------------------------------------------------------
(* C1 *)

\* C1: after remuxFile built and applied a plan, the next run's evaluation of
\* the output file, in the same scope, finds it compliant (no second remux).
C1_Idempotent == e_pc = "rechecked" => (e_hasVideo2 /\ ~e_needsFix2)

----------------------------------------------------------------------------
(* C6 *)

AudioLanguagesReported(info) ==
    \A k \in 1..Len(AudioLanguagesOf(info)) : AudioLanguagesOf(info)[k] # ""

----------------------------------------------------------------------------
(* C7 *)

\* C7: where the video language is checked (scopes all and audio) and the
\* target is no sentinel, a video track with language und or unk is a reason
\* for non-compliance exactly when the file has an audio track, and then the
\* file is judged non-compliant; with no audio track it resolves to und.
C7_UndeterminedVideo ==
    (e_pc # "inspected" /\ AudioInScope(e_actionType)
        /\ e_cfg.VideoLanguage \notin Sentinels)
    => \A i \in VideoTracks(e_info) :
        LET r == determineTargetVideoLanguage(e_info.Tracks[i], e_info,
                                              e_cfg.VideoLanguage)
        IN  e_info.Tracks[i].Language \in Sentinels
            => /\ r.needsFix <=> HasTrackOfType(e_info, "audio")
               /\ HasTrackOfType(e_info, "audio") => e_needsFix
               /\ ~HasTrackOfType(e_info, "audio") => r.targetLang = "und"

----------------------------------------------------------------------------
(* C8 *)

VideoNeedsChange(info, cfg) ==
    \E i \in VideoTracks(info) :
        determineTargetVideoLanguage(info.Tracks[i], info, cfg.VideoLanguage).needsFix

AudioNotAllowed(info, cfg) ==
    \E i \in 1..Len(info.Tracks) :
        /\ info.Tracks[i].Type = "audio"
        /\ info.Tracks[i].Language \notin ListSet(cfg.AudioLanguages)

AudioDefaultWrong(info, cfg) ==
    \E i \in 1..Len(info.Tracks) :
        /\ info.Tracks[i].Type = "audio"
        /\ info.Tracks[i].Language \in ListSet(cfg.AudioLanguages)
        /\ info.Tracks[i].DefaultTrack # (info.Tracks[i].Language = cfg.DefaultAudio)

SubtitleNotAllowed(info, cfg) ==
    \E i \in 1..Len(info.Tracks) :
        /\ info.Tracks[i].Type = "subtitles"
        /\ info.Tracks[i].Language \notin ListSet(cfg.SubtitleLanguages)

WithoutOtherTracks(info) ==
    [Tracks |-> SelectSeq(info.Tracks,
                          LAMBDA t : t.Type \in {"video", "audio", "subtitles"})]

\* C8: in scope all, a file with a video track is judged non-compliant iff
\* its video language needs a change, or an audio track is not allowed, or an
\* allowed audio track's default flag differs from (language = default
\* audio language), or a subtitle track is not allowed; and the verdict is
\* that of the same file without its tracks of any other kind.
C8_VerdictAll ==
    (e_pc # "inspected" /\ e_actionType = ActionAll /\ HasTrackOfType(e_info, "video"))
    => /\ e_hasVideo
       /\ e_needsFix <=> \/ VideoNeedsChange(e_info, e_cfg)
                         \/ AudioNotAllowed(e_info, e_cfg)
                         \/ AudioDefaultWrong(e_info, e_cfg)
                         \/ SubtitleNotAllowed(e_info, e_cfg)
       /\ (e_pc = "compliant") <=> ~e_needsFix
       /\ checkRequirements(WithoutOtherTracks(e_info), e_cfg, ActionAll).needsFix
            = e_needsFix

\* Judged non-compliant in scope all for the default flag alone, in a file
\* that also has a track of another kind.
C8_Witness ==
    /\ e_pc = "needsFixing"
    /\ e_actionType = ActionAll
    /\ HasTrackOfType(e_info, "video")
    /\ HasTrackOfType(e_info, "buttons")
    /\ AudioDefaultWrong(e_info, e_cfg)
    /\ ~VideoNeedsChange(e_info, e_cfg)
    /\ ~AudioNotAllowed(e_info, e_cfg)
    /\ ~SubtitleNotAllowed(e_info, e_cfg)

----------------------------------------------------------------------------
(* C9 *)

\* The audio tracks the command keeps: the list after --audio-tracks, none
\* with --no-audio.
AudioKeepList(args) ==
    IF hasOpt(args, "--audio-tracks") THEN optOf(args, "--audio-tracks").ids ELSE << >>

HasAudioSelection(args) == hasOpt(args, "--audio-tracks") \/ hasOpt(args, "--no-audio")

\* The command drops the audio track id: it carries --no-audio, or an audio
\* keep-list that does not name the track.
PlanDropsAudio(args, id) ==
    \/ hasOpt(args, "--no-audio")
    \/ hasOpt(args, "--audio-tracks") /\ ~isInList(id, AudioKeepList(args))

DisallowedAudioIds(info, cfg) ==
    {info.Tracks[i].ID : i \in {j \in 1..Len(info.Tracks) :
        /\ info.Tracks[j].Type = "audio"
        /\ info.Tracks[j].Language \notin ListSet(cfg.AudioLanguages)}}

\* C9 as stated: in every scope, the command built for a non-compliant file
\* drops every audio track with a language outside the allowed list, and an
\* audio keep-list passed to the tool is the ids of the allowed audio tracks
\* in declaration order.
C9_AsStated ==
    e_pc \in {"built", "remuxed", "rechecked"}
    => /\ \A id \in DisallowedAudioIds(e_info, e_cfg) : PlanDropsAudio(e_args, id)
       /\ HasAudioSelection(e_args)
          => AudioKeepList(e_args) = AllowedIds(e_info, "audio", e_cfg.AudioLanguages)

\* C9, amended: in the scopes all and audio, the command built for a
\* non-compliant file selects the audio tracks, its audio keep-list is the
\* ids of the allowed audio tracks in declaration order, and it drops every
\* audio track with a language outside the allowed list; in the scope
\* subtitle the command selects no audio tracks at all.
C9_DisallowedAudioDropped ==
    e_pc \in {"built", "remuxed", "rechecked"}
    => IF AudioInScope(e_actionType)
       THEN /\ HasAudioSelection(e_args)
            /\ AudioKeepList(e_args)
                 = AllowedIds(e_info, "audio", e_cfg.AudioLanguages)
            /\ \A id \in DisallowedAudioIds(e_info, e_cfg) :
                 PlanDropsAudio(e_args, id)
       ELSE ~HasAudioSelection(e_args)

\* A command was built in an audio scope for a file with an allowed and a
\* disallowed audio track: the keep-list names the allowed track only.
C9_Witness ==
    /\ e_pc = "built"
    /\ AudioInScope(e_actionType)
    /\ DisallowedAudioIds(e_info, e_cfg) # {}
    /\ Len(AudioKeepList(e_args)) > 0
    /\ \A id \in DisallowedAudioIds(e_info, e_cfg) : PlanDropsAudio(e_args, id)

----------------------------------------------------------------------------
(* C10 *)

KindSelection(args, expected, listOpt, dropOpt) ==
    IF expected = << >>
    THEN hasOpt(args, dropOpt) /\ ~hasOpt(args, listOpt)
    ELSE /\ hasOpt(args, listOpt)
         /\ optOf(args, listOpt).ids = expected
         /\ ~hasOpt(args, dropOpt)

\* C10: for a track kind in scope, the command carries the drop-all option
\* and no list when the keep-list is empty, and the non-empty list and no
\* drop-all option otherwise.
C10_EmptyKeepListDropsAll ==
    e_pc \in {"built", "remuxed", "rechecked"}
    => /\ AudioInScope(e_actionType)
          => KindSelection(e_args, AllowedIds(e_info, "audio", e_cfg.AudioLanguages),
                           "--audio-tracks", "--no-audio")
       /\ SubtitleInScope(e_actionType)
          => KindSelection(e_args,
                           AllowedIds(e_info, "subtitles", e_cfg.SubtitleLanguages),
                           "--subtitle-tracks", "--no-subtitles")
       /\ \A k \in 1..Len(e_args) :
            e_args[k].opt \in {"--audio-tracks", "--subtitle-tracks"}
            => Len(e_args[k].ids) > 0

\* A command built in scope all for a file with audio tracks none of which
\* is allowed and a subtitle track that is: --no-audio and a subtitle list.
C10_Witness ==
    /\ e_pc = "built"
    /\ e_actionType = ActionAll
    /\ HasTrackOfType(e_info, "audio")
    /\ AllowedIds(e_info, "audio", e_cfg.AudioLanguages) = << >>
    /\ hasOpt(e_args, "--no-audio")
    /\ hasOpt(e_args, "--subtitle-tracks")

----------------------------------------------------------------------------
(* C2 *)

\* The tracks match the policy exactly: there is a video track, every video
\* track has the target language, every audio track is allowed and is the
\* default exactly when it has the default audio language, every subtitle
\* track is allowed.
MatchesPolicy(info, cfg) ==
    /\ HasTrackOfType(info, "video")
    /\ \A i \in 1..Len(info.Tracks) :
         LET t == info.Tracks[i]
         IN  /\ t.Type = "video" => t.Language = cfg.VideoLanguage
             /\ t.Type = "audio" =>
                  /\ t.Language \in ListSet(cfg.AudioLanguages)
                  /\ t.DefaultTrack <=> (t.Language = cfg.DefaultAudio)
             /\ t.Type = "subtitles" => t.Language \in ListSet(cfg.SubtitleLanguages)

JobEffects(job, ops) == {e \in effects : e.job = job /\ e.op \in ops}

\* C2: in every scope, for a file whose inspected tracks match the policy
\* exactly, remuxFile returns the input path with no error and no command
\* built, and the job has invoked no remux and removed no file.
C2_CompliantUntouched ==
    \A w \in Workers :
        (wpc[w] = "result" /\ MatchesPolicy(winfo[w], RunConfig))
        => /\ wfinal[w] = wpath[w]
           /\ werr[w] = ""
           /\ wargs[w] = << >>
           /\ JobEffects(wpath[w], {"remux", "delete", "failed"}) = {}
           /\ Effect(wpath[w], "compliant", wpath[w]) \in effects

\* remuxFile returned for b.mkv, which matches the policy, in the subtitle
\* scope and not in check-only mode.
C2_Witness ==
    \E w \in Workers :
        /\ wpc[w] = "result"
        /\ wpath[w] = FileB
        /\ MatchesPolicy(winfo[w], RunConfig)
        /\ runActionType = ActionSubtitle
        /\ ~checkOnly
        /\ wfinal[w] = FileB

----------------------------------------------------------------------------
(* C3 *)

OthersUntouched(w) ==
    /\ \A v \in Workers \ {w} : wpc'[v] = wpc[v] /\ wpath'[v] = wpath[v]
    /\ cpc' = cpc /\ walk' = walk /\ jobs' = jobs /\ closed' = closed
    /\ ctxDone' = ctxDone

\* C3: the step in which a job's remux command fails (cancellation included)
\* leaves the output path absent, the input file as it was, an error and no
\* final path returned, the cache as it was, and the other workers, the walk
\* and the queue as they were; the worker then goes on to the next job
\* without a cache update.
C3_RemuxFailure ==
    [][\A w \in Workers :
        /\ (wpc[w] \in {"run", "running"} /\ wpc'[w] = "result")
           => /\ ~fs'[outputFileOf(wpath[w])].exists
              /\ fs'[wpath[w]] = fs[wpath[w]]
              /\ \A p \in Paths \ {outputFileOf(wpath[w])} : fs'[p] = fs[p]
              /\ werr'[w] = "remux command failed"
              /\ wfinal'[w] = NoPath
              /\ Items' = Items /\ cacheFile' = cacheFile
              /\ OthersUntouched(w)
        /\ (wpc[w] = "result" /\ werr[w] # "" /\ wpc'[w] # "result")
           => /\ wpc'[w] = "range"
              /\ Items' = Items /\ cacheFile' = cacheFile
              /\ fs' = fs
              /\ OthersUntouched(w)
      ]_vars

----------------------------------------------------------------------------
(* C4 *)

\* C4: a job whose remux command succeeded goes on to remove the original,
\* its output file written whole at the output path if the path still holds
\* it, the directory as it was if the path was removed meanwhile; remuxFile
\* then returns the output path with the original removed by this job, or,
\* the removal failing, an error and no final path with the files left as
\* they are, and the worker then does not update the cache.
C4_RemuxSuccess ==
    [][\A w \in Workers :
        /\ (wpc[w] = "running" /\ wpc'[w] # "running" /\ wpc'[w] # "result")
           => /\ wpc'[w] = "removeOld"
              /\ IF fs[outputFileOf(wpath[w])].exists
                 THEN IsWhole(fs'[outputFileOf(wpath[w])])
                 ELSE fs' = fs
              /\ \A p \in Paths \ {outputFileOf(wpath[w])} : fs'[p] = fs[p]
        /\ (wpc[w] = "removeOld" /\ wpc'[w] # "removeOld")
           => /\ wpc'[w] = "result"
              /\ IF werr'[w] = ""
                 THEN /\ fs[wpath[w]].exists /\ ~fs'[wpath[w]].exists
                      /\ wfinal'[w] = outputFileOf(wpath[w])
                 ELSE /\ werr'[w] = "could not delete original file"
                      /\ wfinal'[w] = NoPath
                      /\ fs' = fs
        /\ (wpc[w] = "result" /\ wpc'[w] # "result"
              /\ werr[w] = "could not delete original file")
           => Items' = Items /\ cacheFile' = cacheFile
      ]_vars

\* The remux succeeded and the removal of the original failed: an error is
\* returned while both the original and the output file exist.
C4_Witness ==
    \E w \in Workers :
        /\ wpc[w] = "result"
        /\ werr[w] = "could not delete original file"
        /\ wfinal[w] = NoPath
        /\ fs[wpath[w]].exists
        /\ fs[outputFileOf(wpath[w])].exists

----------------------------------------------------------------------------
(* C5 *)

\* C5: a job whose file was inspected and has no video track is never
\* returned as compliant and never gets a cache entry written.
C5_NoVideoNeverCached ==
    /\ \A w \in Workers :
         (wpc[w] = "result" /\ Effect(wpath[w], "noVideo", wpath[w]) \in effects)
         => wfinal[w] # wpath[w]
    /\ \A e \in effects :
         e.op = "noVideo" => JobEffects(e.job, {"cache", "compliant"}) = {}

----------------------------------------------------------------------------
(* C11 *)

\* C11: the command carries a --language option for a video track only when
\* determineTargetVideoLanguage found that the track's language needs a
\* change.
C11_LanguageOnlyWhenNeeded ==
    e_pc \in {"built", "remuxed", "rechecked"}
    => \A i \in VideoTracks(e_info) :
         hasOptFor(e_args, "--language", e_info.Tracks[i].ID)
         => determineTargetVideoLanguage(e_info.Tracks[i], e_info,
                                         e_cfg.VideoLanguage).needsFix

----------------------------------------------------------------------------
(* C12 *)

\* C12: Check returns true exactly when the file can be statted and the key
\* has an entry whose stored time is the file's modification time in whole
\* seconds; so it returns true for a file unmodified since the last Update
\* under the key, false when the file's time in seconds differs from the one
\* that Update saw, and false when the file cannot be statted.
C12_CheckExact ==
    c_op = "check"
    => /\ c_hit <=> /\ fs[FileA].exists
                    /\ c_key \in DOMAIN Items
                    /\ Items[c_key] = Unix(fs[FileA].mtime)
       /\ (c_key \in DOMAIN c_seen /\ fs[FileA].exists)
          => /\ fs[FileA].mtime = c_seen[c_key] => c_hit
             /\ Unix(fs[FileA].mtime) # Unix(c_seen[c_key]) => ~c_hit
       /\ ~fs[FileA].exists => ~c_hit

\* Check returned false for a key that Update had stored, the file having
\* been written again in another second since.
C12_Witness ==
    /\ c_op = "check"
    /\ ~c_hit
    /\ c_key \in DOMAIN c_seen
    /\ fs[FileA].exists
    /\ Unix(fs[FileA].mtime) # Unix(c_seen[c_key])

----------------------------------------------------------------------------
(* C13 *)

\* The key of a file in a scope, as the claims speak of it.
ScopeKey(scope, path) == [scope |-> scope, path |-> path]

\* C13: a job is skipped as cached only on an entry under its key in the
\* run's own scope, and once its cache is loaded a run writes entries under
\* its own scope only: an entry of one scope is never a hit in another.  The
\* file a.mkv that meets the policy for audio but not for subtitles gets its
\* entry under the audio key in an audio run, and is inspected again in the
\* other scopes.
C13_ScopeIndependence ==
    [][/\ \A w \in Workers :
            /\ (wpc[w] = "checkRead" /\ wpc'[w] = "range")
               => ScopeKey(runActionType, wpath[w]) \in DOMAIN Items
            /\ (wpc[w] \in {"check", "checkRead"} /\ runActionType # ActionAudio
                  /\ DOMAIN Items = {ScopeKey(ActionAudio, wpath[w])})
               => wpc'[w] \in {"check", "checkRead", "inspect"}
            /\ (wpc[w] = "store" /\ wpc'[w] = "range"
                  /\ winfo[w] = AudioOkInfo /\ wfinal[w] = wpath[w])
               => /\ runActionType = ActionAudio
                  /\ ScopeKey(ActionAudio, wpath[w]) \in DOMAIN Items'
       /\ cpc # "config"
          => \A k \in DOMAIN Items' :
                (k \notin DOMAIN Items \/ Items'[k] # Items[k]) => k.scope = runActionType
      ]_vars

\* In a run in scope all, a.mkv, compliant for audio only and with an entry
\* under its audio key, is being inspected again.
C13_Witness ==
    \E w \in Workers :
        /\ wpc[w] = "inspect"
        /\ wpath[w] = FileA
        /\ fs[FileA].info = AudioOkInfo
        /\ runActionType = ActionAll
        /\ ScopeKey(ActionAudio, FileA) \in DOMAIN Items
        /\ Items[ScopeKey(ActionAudio, FileA)] = Unix(fs[FileA].mtime)

----------------------------------------------------------------------------
(* C14 *)

\* C14: in check-only mode no step changes a file and no remux is started;
\* the step that ends a job writes a cache entry for it exactly when the job
\* evaluated its file as compliant, and after a job that evaluated its file
\* as not compliant the file has no entry under the run's key.
C14_CheckOnly ==
    [][checkOnly =>
        /\ fs' = fs
        /\ \A e \in effects' : e.op \notin {"remux", "delete", "failed"}
        /\ \A w \in Workers :
             (wpc[w] \in {"result", "store"} /\ wpc'[w] = "range")
             => LET key == ScopeKey(runActionType, wpath[w])
                    compliant == Effect(wpath[w], "compliant", wpath[w]) \in effects
                    written == /\ Effect(wpath[w], "cache", wpath[w]) \in effects'
                               /\ key \in DOMAIN Items'
                               /\ Items'[key] = Unix(fs[wpath[w]].mtime)
                IN  /\ written <=> compliant
                    /\ ~compliant => /\ Items' = Items
                                     /\ key \notin DOMAIN Items'
      ]_vars

\* A check-only run in scope all is over: a.mkv was evaluated as needing a
\* fix and has no entry in the saved cache, b.mkv was evaluated as compliant
\* and has one.
C14_Witness ==
    /\ checkOnly
    /\ cpc = "done"
    /\ runActionType = ActionAll
    /\ Effect(FileA, "needsFixing", FileA) \in effects
    /\ ScopeKey(ActionAll, FileA) \notin DOMAIN cacheFile.items
    /\ Effect(FileB, "compliant", FileB) \in effects
    /\ ScopeKey(ActionAll, FileB) \in DOMAIN cacheFile.items
    /\ fs[FileA] = File(AudioOkInfo, 0)

----------------------------------------------------------------------------
(* C15 *)

\* No worker starts on a job, no file is judged and no remux is started: a
\* job under way is only brought to its end (failure, cleanup, removal of
\* the original after a remux that had succeeded, cache update).
NoNewProcessing ==
    /\ \A w \in Workers : wpc'[w] = "check" => wpc[w] = "check"
    /\ \A w \in Workers :
          (wpc[w] \in {"range", "select"} /\ wpc'[w] # wpc[w])
          => wpc'[w] \in {"select", "exited"}
    /\ \A e \in effects' \ effects : e.op \in {"failed", "delete", "cache"}

\* C15 as stated: once ctx is cancelled, no job is added to the queue, no
\* worker starts on a job, and no file is inspected, judged or remuxed.
C15_AsStated ==
    [][ctxDone => (Len(jobs') <= Len(jobs) /\ NoNewProcessing)]_vars

\* C15, amended: once ctx is cancelled, the walk starts no further send (the
\* one send whose callback had passed its cancellation check before the
\* signal still adds its job to the queue), no worker starts on a job, and
\* no file is inspected, judged or remuxed: a worker that takes a job leaves.
C15_AfterCancellation ==
    [][ctxDone =>
        /\ Len(jobs') > Len(jobs) => (cpc = "send" /\ cpc' = "walk")
        /\ cpc # "send" => cpc' # "send"
        /\ NoNewProcessing
      ]_vars

\* A cancelled run is over with a job left in the queue, never started.
C15_Witness ==
    /\ ctxDone
    /\ cpc = "done"
    /\ jobs # << >>
    /\ JobEffects(Head(jobs), {"compliant", "needsFixing", "noVideo", "remux"}) = {}

-----------------------------------------------------------------------------
(* C16 *)

\* The workers runProcessing started, if it started them, have all returned.
WorkersExited == \A w \in Workers : wpc[w] \in {"notStarted", "exited"}

\* C16: the cache file is written in one step only, the deferred Save, taken
\* once and with every started worker returned; the file then holds the whole
\* map (or is cut short when the write itself fails); once the cache is loaded
\* no entry leaves the map, and the entry a job stored is not changed again;
\* after a cancellation the run comes to its end, past the Save.
C16_SavedOnCancellation ==
    /\ [][/\ cacheFile' # cacheFile
             => /\ cpc = "save" /\ cpc' = "done"
                /\ WorkersExited
                /\ cacheFile' \in {JsonObject(Items), InvalidJson}
          /\ cpc = "save" => cpc' \in {"save", "done"}
          /\ cpc = "done" => cpc' = "done"
          /\ cpc # "config" => \A k \in DOMAIN Items : k \in DOMAIN Items'
          /\ \A e \in effects :
                e.op = "cache"
                => Items'[ScopeKey(runActionType, e.job)]
                     = Items[ScopeKey(runActionType, e.job)]
         ]_vars
    /\ (ctxDone ~> cpc = "done")

-----------------------------------------------------------------------------
(* C17 *)

\* C17: when the process stops while Save is writing, the cache file holds
\* what it held before the Save or the whole map being saved; and after a
\* Save, a first or a repeated one, the file holds the map as marshalled.
C17_SaveAtomic ==
    /\ c_op = "crashed"
       => cacheFile \in {c_prev, MarshalItems(c_cache = "nilMap", Items)}
    /\ c_op = "saved"
       => cacheFile = MarshalItems(c_cache = "nilMap", Items)

-----------------------------------------------------------------------------
(* C18 *)

\* The cache file is missing or is not an object of integer members.
MissingOrMalformed(file) ==
    \/ file.kind \in {"missing", "invalid", "null"}
    \/ file.kind = "object" /\ file.bad # {}

\* C18: no call on the loaded cache panics; and a cache loaded from a missing
\* or malformed file is an empty map that can be written to.
C18_LoadTolerant ==
    /\ c_op # "panic"
    /\ (c_op = "loaded" /\ MissingOrMalformed(cacheFile))
       => (c_cache = "map" /\ Items = EmptyItems)

-----------------------------------------------------------------------------
(* C19 *)

\* How often a path stands in a sequence, and the workers that hold it.
Occurs(seq, p) == Cardinality({i \in DOMAIN seq : seq[i] = p})
Holders(p) == {w \in Workers : wpath[w] = p}

\* C19: while no cancellation is raised, a path is at one place at most (to
\* be visited, in the queue, or held by one worker); it enters the queue from
\* the walk only and leaves it to one worker that held none; a worker lets go
\* of its job only by skipping it as cached or after remuxFile has returned,
\* with or without an error, and goes on to the next job; it returns only
\* when the queue is closed and empty.  An uncancelled run that has started
\* its workers ends with the queue empty and every worker returned, and every
\* run under fair scheduling ends.
C19_BatchCompletes ==
    /\ [][~ctxDone'
          => /\ \A p \in Paths :
                  /\ Occurs(walk, p) + Occurs(jobs, p) + Cardinality(Holders(p)) <= 1
                  /\ Occurs(jobs', p) > Occurs(jobs, p)
                     => (walk # << >> /\ Head(walk) = p /\ walk' = Tail(walk))
                  /\ Occurs(jobs', p) < Occurs(jobs, p)
                     => /\ jobs # << >> /\ Head(jobs) = p
                        /\ Holders(p) = {} /\ Cardinality(Holders(p)') = 1
                  /\ (Holders(p)' # Holders(p) /\ Holders(p)' # {})
                     => (jobs # << >> /\ Head(jobs) = p /\ jobs' = Tail(jobs))
                  /\ \A w \in Workers :
                        (wpath[w] = p /\ wpath'[w] # p)
                        => (wpc[w] \in {"checkRead", "result", "store"} /\ wpc'[w] = "range")
             /\ \A w \in Workers :
                  (wpc[w] # "exited" /\ wpc'[w] = "exited")
                  => (wpc[w] = "range" /\ jobs = << >> /\ closed)
             /\ \/ walk' \in {walk, << >>}
                \/ walk # << >> /\ walk' = Tail(walk)
         ]_vars
    /\ []((cpc = "done" /\ ~ctxDone /\ closed)
            => /\ jobs = << >>
               /\ \A w \in Workers : wpc[w] \in {"notStarted", "exited"}
               /\ \A w \in Workers : wpath[w] = NoPath)
    /\ <>(cpc = "done")

\* An uncancelled run has ended; the remux of a-remux.mkv had failed, and
\* b.mkv, which came after it, has been handled and has its entry.
C19_Witness ==
    /\ cpc = "done"
    /\ ~ctxDone
    /\ JobEffects(FileARemux, {"failed"}) # {}
    /\ JobEffects(FileB, {"cache"}) # {}
    /\ ScopeKey(runActionType, FileB) \in DOMAIN Items

-----------------------------------------------------------------------------
(* C20 *)

\* The errors the claim calls fatal: of the policy file and of the target path.
FatalErrors == {"failed to load config", "failed to stat target"}

\* C20: runProcessing returns an error only for a fatal one, and then no
\* worker was started; a run that started a worker returns nil.
C20_FailureOnlyWhenFatal ==
    /\ runErr # ""
       => /\ runErr \in FatalErrors
          /\ \A w \in Workers : wpc[w] = "notStarted"
    /\ (cpc = "done" /\ \E w \in Workers : wpc[w] # "notStarted")
       => runErr = ""

-----------------------------------------------------------------------------
(* C21 *)

\* C21: in scope subtitle the verdict needsFix is that of the subtitle tracks
\* alone, and a command built carries no audio selection, no --language and
\* no --default-track; in scope audio the verdict is that of the video and
\* audio tracks alone, and a command built carries no subtitle selection.
C21_ScopeGating ==
    /\ (e_pc # "inspected" /\ e_actionType = ActionSubtitle)
       => e_needsFix <=> SubtitleNotAllowed(e_info, e_cfg)
    /\ (e_pc # "inspected" /\ e_actionType = ActionAudio)
       => e_needsFix <=> \/ VideoNeedsChange(e_info, e_cfg)
                         \/ AudioNotAllowed(e_info, e_cfg)
                         \/ AudioDefaultWrong(e_info, e_cfg)
    /\ (e_pc \in {"built", "remuxed", "rechecked"} /\ e_actionType = ActionSubtitle)
       => /\ ~HasAudioSelection(e_args)
          /\ ~hasOpt(e_args, "--language")
          /\ ~hasOpt(e_args, "--default-track")
    /\ (e_pc \in {"built", "remuxed", "rechecked"} /\ e_actionType = ActionAudio)
       => /\ ~hasOpt(e_args, "--subtitle-tracks")
          /\ ~hasOpt(e_args, "--no-subtitles")

\* A command was built in scope subtitle for a file whose video language needs
\* a change and which has an audio track that is not allowed and an allowed
\* one: it selects the subtitle tracks and nothing else.
C21_Witness ==
    /\ e_pc = "built"
    /\ e_actionType = ActionSubtitle
    /\ VideoNeedsChange(e_info, e_cfg)
    /\ AudioNotAllowed(e_info, e_cfg) \/ AudioDefaultWrong(e_info, e_cfg)
    /\ SubtitleNotAllowed(e_info, e_cfg)
    /\ hasOpt(e_args, "--no-subtitles")

-----------------------------------------------------------------------------
(* C22 *)

\* The --default-track options of the command for track id.
DefaultTrackArgs(args, id) ==
    {k \in 1..Len(args) : args[k].opt = "--default-track" /\ args[k].id = id}

\* C22: in a command built, an audio track has a --default-track option iff
\* its id is in the audio keep-list, and then one option, with yes when the
\* track's language is the default audio language and no otherwise; a track
\* that is no audio track has none.
C22_DefaultFlagForKept ==
    e_pc \in {"built", "remuxed", "rechecked"}
    => \A i \in 1..Len(e_info.Tracks) :
         LET t == e_info.Tracks[i]
         IN  IF t.Type = "audio"
             THEN /\ DefaultTrackArgs(e_args, t.ID) # {}
                       <=> isInList(t.ID, AudioKeepList(e_args))
                  /\ Cardinality(DefaultTrackArgs(e_args, t.ID)) <= 1
                  /\ \A k \in DefaultTrackArgs(e_args, t.ID) :
                        e_args[k].val = (IF t.Language = e_cfg.DefaultAudio THEN "yes" ELSE "no")
             ELSE DefaultTrackArgs(e_args, t.ID) = {}

\* A command was built that keeps a track of the default language (yes), keeps
\* another allowed track (no) and drops a third, which gets no option.
C22_Witness ==
    /\ e_pc = "built"
    /\ \E i, j, k \in 1..Len(e_info.Tracks) :
         /\ e_info.Tracks[i].Type = "audio" /\ e_info.Tracks[j].Type = "audio"
         /\ e_info.Tracks[k].Type = "audio"
         /\ hasOptFor(e_args, "--default-track", e_info.Tracks[i].ID)
         /\ valFor(e_args, "--default-track", e_info.Tracks[i].ID) = "yes"
         /\ hasOptFor(e_args, "--default-track", e_info.Tracks[j].ID)
         /\ valFor(e_args, "--default-track", e_info.Tracks[j].ID) = "no"
         /\ PlanDropsAudio(e_args, e_info.Tracks[k].ID)
         /\ ~hasOptFor(e_args, "--default-track", e_info.Tracks[k].ID)

-----------------------------------------------------------------------------
(* C23 *)

\* The cache has an entry under the run's key of path p with the time of the
\* file p as it is.
IsHit(p) ==
    /\ fs[p].exists
    /\ ScopeKey(runActionType, p) \in DOMAIN Items
    /\ Items[ScopeKey(runActionType, p)] = Unix(fs[p].mtime)

\* Check reports a hit to worker w: the map has an entry under the run's key
\* of w's job that holds the time Check's stat gave.
ReportsHit(w) ==
    /\ ScopeKey(runActionType, wpath[w]) \in DOMAIN Items
    /\ Items[ScopeKey(runActionType, wpath[w])] = wstat[w]

\* C23: the step a worker takes from its cache check, when the check is a
\* hit, ends the job: the worker is back at the queue with nothing inspected,
\* no command built, no file and no cache entry changed, and nothing recorded
\* for the job; and whatever is recorded for a job is recorded by the worker
\* that holds it, past its cache check.
C23_HitSkipsJob ==
    [][/\ \A w \in Workers :
            (wpc[w] = "checkRead" /\ wpc'[w] # "checkRead" /\ ReportsHit(w))
            => /\ wpc'[w] = "range"
               /\ wpath'[w] = NoPath /\ winfo'[w] = NoInfo /\ wargs'[w] = << >>
               /\ fs' = fs
               /\ Items' = Items
               /\ effects' = effects
               /\ JobEffects(wpath[w], {"compliant", "needsFixing", "noVideo", "remux",
                                        "failed", "delete", "cache"}) = {}
       /\ \A e \in effects' \ effects :
            \E w \in Workers :
                wpath[w] = e.job /\ wpc[w] \in {"inspect", "run", "running", "removeOld", "store"}
      ]_vars

\* In an uncancelled run a.mkv, which has its entry, has left the queue, is
\* held by no worker, and nothing is recorded for it.
C23_Witness ==
    /\ ~ctxDone
    /\ ~walkErr
    /\ cpc \in {"walk", "send", "close", "wait", "save", "done"}
    /\ Occurs(walk, FileA) = 0
    /\ Occurs(jobs, FileA) = 0
    /\ Holders(FileA) = {}
    /\ IsHit(FileA)
    /\ JobEffects(FileA, {"compliant", "needsFixing", "noVideo", "remux",
                          "failed", "delete", "cache"}) = {}

----------------------------------------------------------------------------
(* C24 *)

\* The goroutines reading the map (in Check or in Save) and writing it (in
\* Update).
Readers == {g \in Goroutines : l_pc[g] \in {"reading", "saving"}}
Writers == {g \in Goroutines : l_pc[g] = "writing"}

\* C24: while a goroutine is writing the map in Update, no other goroutine
\* is writing it and none is reading it, in Check or in Save.
C24_WriterExcludesAll ==
    Writers # {} => (Cardinality(Writers) = 1 /\ Readers = {})

\* Two workers are in Check at once, reading a map that an Update has
\* written.
C24_Witness ==
    /\ Cardinality(Readers) >= 2
    /\ l_items # EmptyItems

----------------------------------------------------------------------------
(* C25 *)

\* C25: the step in which a worker handles the result of a successful remux
\* of its job into an output file leaves the cache with an entry under the
\* run's key of the output file, holding the time of that file, so that a
\* Check of the output file under its own key is a hit.
C25_OutputIsHit ==
    [][\A w \in Workers :
          (/\ wpc[w] = "store" /\ wpc'[w] = "range"
           /\ werr[w] = ""
           /\ wfinal[w] # NoPath /\ wfinal[w] # wpath[w]
           /\ fs'[wfinal[w]].exists)
          => /\ ScopeKey(runActionType, wfinal[w]) \in DOMAIN Items'
             /\ Items'[ScopeKey(runActionType, wfinal[w])] = Unix(fs'[wfinal[w]].mtime)
      ]_vars

\* The paths of the other jobs of the run that are still to be done or under
\* way when worker w acts: the candidates the walk has yet to send, those in
\* the queue, those other workers hold, and the output paths of all of them.
OtherJobInputs(w) ==
    ({walk[i] : i \in DOMAIN walk} \cup {jobs[i] : i \in DOMAIN jobs} \cup
     {wpath[v] : v \in Workers \ {w}}) \ {NoPath, wpath[w]}
OtherJobPaths(w) ==
    OtherJobInputs(w) \cup {outputFileOf(q) : q \in OtherJobInputs(w)}

\* C26: whenever a step of worker w changes the file at a path, the path is
\* the input or the output of w's own job; a complete media file is lost (cut
\* short, overwritten or deleted) only as the input of w's job once w's remux
\* of it has succeeded; and a path that is not w's own input is neither the
\* input nor the output of another job of the run that is still to be done or
\* under way.
C26_NoContentLost ==
    [][\A w \in Workers, p \in Paths :
          (wpc'[w] # wpc[w] /\ fs'[p] # fs[p])
          => /\ p \in {wpath[w], outputOf(wargs[w])}
             /\ (fs[p].exists /\ ~fs[p].partial)
                  => (p = wpath[w] /\ wpc[w] = "removeOld")
             /\ p # wpath[w] => p \notin OtherJobPaths(w)
      ]_vars

-----------------------------------------------------------------------------
(* C27 *)

\* The numWorkers workers of the run have all returned.
AllWorkersExited == \A w \in Workers : w <= numWorkers => wpc[w] = "exited"

\* The job queue holds as many paths as its buffer takes.
QueueFull == Len(jobs) = QueueFactor * numWorkers

\* C27: the coordinator is never at its send with the queue full and every
\* worker returned; it goes on from its wait only to the deferred Save, with
\* the queue closed and every worker returned; and a run that has started
\* its workers comes to its end, cancelled or not, the queue closed and every
\* worker returned.
C27_RunTerminates ==
    /\ [](cpc = "send" /\ AllWorkersExited => ~QueueFull)
    /\ [][(cpc = "wait" /\ cpc' # "wait")
             => (cpc' = "save" /\ closed /\ AllWorkersExited)]_vars
    /\ (cpc = "start") ~> (cpc = "done" /\ closed /\ AllWorkersExited)

====
